---- MODULE Spec2Model ----
(***************************************************************************)
(* Model of the remote-data-fetch layer of the SLATE backend:              *)
(*   backend/main.py        _with_retries, _cache_get/_cache_set,          *)
(*                          trustlender_list_markets / _market_detail /    *)
(*                          _user_position                                 *)
(*   backend/tron_client.py _with_retries (defaults from the environment)  *)
(*   backend/justlend_ops.py list_markets, market_detail, user_position    *)
(***************************************************************************)
EXTENDS Integers, Sequences, FiniteSets, TLC

VARIABLES rt, now, cache, last, chat

vars == <<rt, now, cache, last, chat>>

(***************************************************************************)
(* Bounds of the model                                                     *)
(***************************************************************************)
\* largest max_attempts a _with_retries call is given
MaxTries == 3
\* random.random() returns j / 2^RandBits (53 in CPython); 1 + 0.25*r is then
\* rounded to RandBits-1 fractional bits, as a double in [1, 2) is
RandBits == 5

(***************************************************************************)
(* Configuration read from the environment (defaults of the source)        *)
(***************************************************************************)
JL_MAX_ATTEMPTS == 4
JL_BASE_DELAY_MS == 250
JUSTLEND_MAX_RETRIES == 3
JUSTLEND_RETRY_DELAY_MS == 2000

\* Python's None for an optional integer argument: <<>> is None, <<n>> is n
None == <<>>
Some(n) == <<n>>
IsNone(x) == x = <<>>
Val(x) == x[1]

RECURSIVE Pow2(_)
Pow2(n) == IF n <= 0 THEN 1 ELSE 2 * Pow2(n - 1)

Min(a, b) == IF a <= b THEN a ELSE b
Max(a, b) == IF a >= b THEN a ELSE b

(***************************************************************************)
(* _with_retries                                                           *)
(***************************************************************************)
\* the grid of doubles in [1, 2): multiples of 1 / Grid
Grid == Pow2(RandBits - 1)

\* 1 + 0.25 * random.random() for random.random() = j / 2^RandBits, as the
\* numerator of a fraction over Grid. 0.25 * r = j / (8 * Grid) is exact; the
\* sum is rounded to the nearest multiple of 1 / Grid, ties to even.
OnePlusJitter(j) ==
    LET q == j \div 8
        r == j % 8
        up == IF r > 4 THEN 1
              ELSE IF r < 4 THEN 0
              ELSE IF (Grid + q) % 2 = 0 THEN 0 ELSE 1
    IN Grid + q + up

\* the values 1 + 0.25 * random.random() can take
JitterFactors == { OnePlusJitter(j) : j \in 0 .. (Pow2(RandBits) - 1) }

\* a delay that does not grow with the attempt
DelayFlat(base_delay_ms, attempt, factor) ==
    (base_delay_ms * factor) \div Grid

\* delay = int(base_delay_ms * (2 ** (attempt - 1)) * (1 + 0.25 * random.random()))
Delay(base_delay_ms, attempt, factor) ==
    (base_delay_ms * Pow2(attempt - 1) * factor) \div Grid

\* the loop with the last exception swallowed: None is returned instead
RECURSIVE RetryLoopSwallow(_, _, _, _, _, _)
RetryLoopSwallow(fails, max_attempts, base_delay_ms, factors, attempt0, sleeps) ==
    LET attempt == attempt0 + 1 IN
    IF ~fails[attempt]
    THEN [status |-> "returned", result |-> attempt, calls |-> attempt, sleeps |-> sleeps]
    ELSE IF attempt >= max_attempts
    THEN [status |-> "returned", result |-> 0, calls |-> attempt, sleeps |-> sleeps]
    ELSE RetryLoopSwallow(fails, max_attempts, base_delay_ms, factors, attempt,
                          Append(sleeps, Delay(base_delay_ms, attempt, factors[attempt])))

\* the `while True` loop of _with_retries, entered with `attempt0` attempts made.
\* fails[i] says whether the i-th invocation of fn raises; the i-th invocation
\* returns value i or raises exception i. factors[i] is the jitter factor drawn
\* for the sleep after the i-th failed attempt.
RECURSIVE RetryLoop(_, _, _, _, _, _)
RetryLoop(fails, max_attempts, base_delay_ms, factors, attempt0, sleeps) ==
    LET attempt == attempt0 + 1 IN
    IF ~fails[attempt]
    THEN [status |-> "returned", result |-> attempt, calls |-> attempt, sleeps |-> sleeps]
    ELSE IF attempt >= max_attempts
    THEN [status |-> "raised", result |-> attempt, calls |-> attempt, sleeps |-> sleeps]
    ELSE RetryLoop(fails, max_attempts, base_delay_ms, factors, attempt,
                   Append(sleeps, Delay(base_delay_ms, attempt, factors[attempt])))

\* backend/main.py: _with_retries(fn, label=, max_attempts=, base_delay_ms=)
WithRetries(fails, max_attempts, base_delay_ms, factors) ==
    RetryLoop(fails, max_attempts, base_delay_ms, factors, 0, <<>>)

\* backend/tron_client.py: _with_retries with both keywords optional
TcWithRetries(fails, max_attempts, base_delay_ms, factors) ==
    LET m == IF IsNone(max_attempts) THEN JUSTLEND_MAX_RETRIES ELSE Val(max_attempts)
        b == IF IsNone(base_delay_ms) THEN JUSTLEND_RETRY_DELAY_MS \div 4
             ELSE Val(base_delay_ms)
    IN RetryLoop(fails, m, b, factors, 0, <<>>)

\* sequences of length n over S
SeqsOfLen(S, n) == [1 .. n -> S]

\* the keyword arguments a caller can pass: main.py requires both, tron_client.py
\* lets each default to None
RetryArgs ==
    { [impl |-> "main", max |-> Some(m), base |-> Some(b)]
        : m \in 1 .. MaxTries, b \in {0, JL_BASE_DELAY_MS} }
    \cup
    { [impl |-> "tron_client", max |-> m, base |-> b]
        : m \in {None} \cup { Some(k) : k \in 1 .. MaxTries }, b \in {None, Some(0)} }

\* the max_attempts and base_delay_ms a call runs with
EffMax(a) ==
    IF a.impl = "tron_client" /\ IsNone(a.max) THEN JUSTLEND_MAX_RETRIES ELSE Val(a.max)
EffBase(a) ==
    IF a.impl = "tron_client" /\ IsNone(a.base) THEN JUSTLEND_RETRY_DELAY_MS \div 4
    ELSE Val(a.base)

\* the inputs of one _with_retries call: the arguments, which invocations of fn
\* raise, and the jitter drawn for each sleep
RetryInputs ==
    UNION { { [args |-> a, fails |-> f, factors |-> js]
                : f \in SeqsOfLen(BOOLEAN, EffMax(a)),
                  js \in SeqsOfLen(JitterFactors, EffMax(a) - 1) }
            : a \in RetryArgs }

(***************************************************************************)
(* The upstream ledger (TronGrid) as the tools see it                      *)
(***************************************************************************)
\* markets the Comptroller lists
NumMarkets == 7
\* markets on which the troubled remote function stays down during one call
MaxBad == 2
\* consecutive transient failures of a remote function before it answers
MaxTransient == 1
\* the clock is moved on this many times
MaxTicks == 2

JL_LIST_LIMIT_DEFAULT == 6
JL_CACHE_TTL_SEC == 120
JUSTLEND_MAX_MARKETS == 4

\* comp.functions.getAllMarkets(): the addresses, in the Comptroller's order
AllMarkets == [a \in 1 .. NumMarkets |-> a]

SymbolNames == <<"jUSDT", "jTRX", "jBTC", "jETH", "jSUN", "jUSDC", "jWIN", "jNFT", "jBTT">>
\* j.functions.symbol()
Symbol(a) == SymbolNames[((a - 1) % Len(SymbolNames)) + 1]
\* the other per-market reads
SupplyRate(a) == 10 * a + 1
BorrowRate(a) == 10 * a + 2
ExchangeRate(a) == 10 * a + 3
TotalBorrows(a) == 10 * a + 4
CollateralFactor(a) == 10 * a + 5
\* j.functions.getAccountSnapshot(address), comp.functions.getAccountLiquidity(address)
TokenBalance(a) == 10 * a + 6
BorrowBalance(a) == 10 * a + 7
Liquidity == 8
Shortfall == 9

\* str.lower() on the symbols in play
Lower(s) ==
    CASE s = "jUSDT" -> "jusdt" [] s = "JUSDT" -> "jusdt"
      [] s = "jTRX" -> "jtrx"   [] s = "jtrx" -> "jtrx"
      [] s = "jBTC" -> "jbtc"   [] s = "jETH" -> "jeth"
      [] s = "jSUN" -> "jsun"   [] s = "jUSDC" -> "jusdc"
      [] s = "jWIN" -> "jwin"   [] s = "jNFT" -> "jnft"
      [] s = "jBTT" -> "jbtt"   [] s = "ZZZ" -> "zzz"
      [] OTHER -> s

\* the symbols a caller asks for
SymbolArgs == {"JUSDT", "jtrx", "ZZZ"}
\* the limits a caller asks for
LimitArgs == {None} \cup { Some(n) : n \in {-1, 0, 1, JL_LIST_LIMIT_DEFAULT, 10} }

\* remote functions read per market, and the top-level ones (market 0)
MarketFns == {"get_contract", "symbol", "supplyRatePerBlock", "borrowRatePerBlock",
              "exchangeRateStored", "totalBorrows", "markets", "getAccountSnapshot"}
TopFns == {"comptroller", "getAllMarkets", "getAccountLiquidity"}

\* what the upstream does during one tool call: one remote function `fn` is in
\* trouble; on the markets in `bad` it fails on every attempt, elsewhere it fails
\* `pre` times and then answers. A top-level function is read for market 0.
Plans ==
    { [fn |-> f, bad |-> b, pre |-> p]
        : f \in MarketFns,
          b \in { x \in SUBSET (1 .. NumMarkets) : Cardinality(x) <= MaxBad },
          p \in 0 .. MaxTransient }
    \cup
    { [fn |-> f, bad |-> b, pre |-> p]
        : f \in TopFns, b \in {{}, {0}}, p \in 0 .. MaxTransient }

\* which attempts of reading fn on market a raise, for max_attempts = m
FailPattern(plan, fn, a, m) ==
    [i \in 1 .. m |->
        /\ plan.fn = fn
        /\ (a \in plan.bad \/ i <= plan.pre)]

\* no jitter drawn: the tools' results do not depend on the sleeps' lengths
NoJitter(m) == [i \in 1 .. (m - 1) |-> Grid]

\* the exception a failed read of fn raises
Exc(fn) == [type |-> "HTTPError", msg |-> fn]

\* what a tool sees of one _with_retries call
ReadResult(r) ==
    [ok |-> r.status = "returned", calls |-> r.calls, sleeps |-> Len(r.sleeps)]

\* a read behind a circuit breaker: once a read of fn has used up its attempts
\* on an earlier market, the later reads of fn are tried once
ReadWithBreaker(plan, fn, a, how) ==
    IF how = "once" \/ (plan.fn = fn /\ \E b \in plan.bad : b < a)
    THEN [ok |-> ~FailPattern(plan, fn, a, 1)[1], calls |-> 1, sleeps |-> 0]
    ELSE IF how = "main"
    THEN ReadResult(WithRetries(FailPattern(plan, fn, a, JL_MAX_ATTEMPTS),
                                JL_MAX_ATTEMPTS, JL_BASE_DELAY_MS,
                                NoJitter(JL_MAX_ATTEMPTS)))
    ELSE ReadResult(TcWithRetries(FailPattern(plan, fn, a, JUSTLEND_MAX_RETRIES),
                                  None, None, NoJitter(JUSTLEND_MAX_RETRIES)))

\* one remote read of fn on market a. how = "once": outside _with_retries;
\* "main": main.py's _with_retries(..., max_attempts=JL_MAX_ATTEMPTS,
\* base_delay_ms=JL_BASE_DELAY_MS); "ops": tron_client's _with_retries(..., label=...)
Read(plan, fn, a, how) ==
    IF how = "once"
    THEN [ok |-> ~FailPattern(plan, fn, a, 1)[1], calls |-> 1, sleeps |-> 0]
    ELSE IF how = "main"
    THEN ReadResult(WithRetries(FailPattern(plan, fn, a, JL_MAX_ATTEMPTS),
                                JL_MAX_ATTEMPTS, JL_BASE_DELAY_MS,
                                NoJitter(JL_MAX_ATTEMPTS)))
    ELSE ReadResult(TcWithRetries(FailPattern(plan, fn, a, JUSTLEND_MAX_RETRIES),
                                  None, None, NoJitter(JUSTLEND_MAX_RETRIES)))

NoReads == [ok |-> TRUE, calls |-> 0, sleeps |-> 0, failedFn |-> ""]

\* the counters after one more read r of fn
AfterRead(acc, r, fn) ==
    [ok |-> r.ok, calls |-> acc.calls + r.calls, sleeps |-> acc.sleeps + r.sleeps,
     failedFn |-> IF r.ok THEN "" ELSE fn]

\* reads that go on after one of them has raised
RECURSIVE RunReadsAll(_, _, _, _, _)
RunReadsAll(plan, a, reads, k, acc) ==
    IF k > Len(reads) THEN acc
    ELSE RunReadsAll(plan, a, reads, k + 1,
                     IF acc.ok
                     THEN AfterRead(acc, Read(plan, reads[k][1], a, reads[k][2]),
                                    reads[k][1])
                     ELSE [acc EXCEPT !.calls =
                              @ + Read(plan, reads[k][1], a, reads[k][2]).calls])

\* the reads <<fn, how>> of `reads` from the k-th on, made one after the other
\* on market a until one raises
RECURSIVE RunReads(_, _, _, _, _)
RunReads(plan, a, reads, k, acc) ==
    IF k > Len(reads) \/ ~acc.ok THEN acc
    ELSE RunReads(plan, a, reads, k + 1,
                  AfterRead(acc, Read(plan, reads[k][1], a, reads[k][2]), reads[k][1]))

\* Python's s[:n]
PySlice(s, n) ==
    IF n >= 0 THEN SubSeq(s, 1, Min(n, Len(s)))
    ELSE SubSeq(s, 1, Max(Len(s) + n, 0))

(***************************************************************************)
(* Results of a tool body: a value, or an exception on its way up          *)
(***************************************************************************)
\* the counters a call leaves behind: remote invocations, retry sleeps,
\* throttle sleeps, the markets visited and those whose reads raised
Stats(calls, sleeps, throttles, seen, failed) ==
    [calls |-> calls, sleeps |-> sleeps, throttles |-> throttles,
     seen |-> seen, failed |-> failed]
Returned(v, st) == [raised |-> FALSE, ret |-> v, st |-> st]
Raised(e, st) == [raised |-> TRUE, exc |-> e, st |-> st]

TRON_NETWORK == "mainnet"
JL_UNITROLLER_MAIN == "TGjYzgCyPobsNS9n6WcbdLVR9dH7mWqFx7"

\* the entry a loop appends for market a (the float fields derived from these
\* integers are left out)
Entry(kind, a) ==
    CASE kind = "main.list" ->
            [address |-> a, symbol |-> Symbol(a),
             collateral_factor_mantissa |-> CollateralFactor(a),
             supply_rate_per_block |-> SupplyRate(a),
             borrow_rate_per_block |-> BorrowRate(a),
             exchange_rate_mantissa |-> ExchangeRate(a),
             total_borrows_mantissa |-> TotalBorrows(a)]
      [] kind = "position" ->
            [jtoken |-> a, symbol |-> Symbol(a),
             token_balance_mantissa |-> TokenBalance(a),
             borrow_balance_mantissa |-> BorrowBalance(a),
             exchange_rate_mantissa |-> ExchangeRate(a)]
      [] OTHER ->
            [address |-> a, symbol |-> Symbol(a),
             supply_rate_per_block |-> SupplyRate(a),
             borrow_rate_per_block |-> BorrowRate(a),
             exchange_rate_mantissa |-> ExchangeRate(a),
             total_borrows_mantissa |-> TotalBorrows(a)]

NoItems == [items |-> <<>>, calls |-> 0, sleeps |-> 0, failed |-> {}, exc |-> None]

\* a loop body with no try around it: the market's exception leaves the loop
AfterMarketNoTry(acc, kind, a, o) ==
    [items |-> IF o.ok THEN Append(acc.items, Entry(kind, a)) ELSE acc.items,
     calls |-> acc.calls + o.calls, sleeps |-> acc.sleeps + o.sleeps,
     failed |-> IF o.ok THEN acc.failed ELSE acc.failed \cup {a},
     exc |-> IF o.ok THEN None ELSE Some(Exc(o.failedFn))]

\* the per-market `try: ... append(entry) except Exception: <log>`: a market
\* whose reads raise is skipped, the exception goes no further
AfterMarket(acc, kind, a, o) ==
    [items |-> IF o.ok THEN Append(acc.items, Entry(kind, a)) ELSE acc.items,
     calls |-> acc.calls + o.calls, sleeps |-> acc.sleeps + o.sleeps,
     failed |-> IF o.ok THEN acc.failed ELSE acc.failed \cup {a},
     exc |-> None]

\* `for addr in addrs:` from the i-th address on, reading `reads` per market
RECURSIVE LoopMarkets(_, _, _, _, _, _)
LoopMarkets(plan, addrs, reads, kind, i, acc) ==
    IF i > Len(addrs) \/ ~IsNone(acc.exc) THEN acc
    ELSE LoopMarkets(plan, addrs, reads, kind, i + 1,
                     AfterMarket(acc, kind, addrs[i],
                                 RunReads(plan, addrs[i], reads, 1, NoReads)))

(***************************************************************************)
(* backend/main.py: the markets cache                                      *)
(***************************************************************************)
\* _cache_get without the age test
CacheGetStale(c, t) ==
    IF c = <<>> THEN None ELSE Some(c[2])

\* _cache_get(): the payload if the slot is filled and not older than the TTL
CacheGet(c, t) ==
    IF c = <<>> THEN None
    ELSE IF (t - c[1]) <= JL_CACHE_TTL_SEC THEN Some(c[2])
    ELSE None

\* _cache_set(payload): _MARKETS_CACHE = (time.time(), payload)
CacheSet(payload, t) == <<t, payload>>

(***************************************************************************)
(* backend/main.py: trustlender_list_markets                               *)
(***************************************************************************)
MainListReads ==
    <<<<"get_contract", "main">>, <<"symbol", "main">>, <<"supplyRatePerBlock", "main">>,
      <<"borrowRatePerBlock", "main">>, <<"exchangeRateStored", "main">>,
      <<"totalBorrows", "main">>, <<"markets", "main">>>>

MainPayload(markets) ==
    [network |-> "mainnet", unitroller |-> JL_UNITROLLER_MAIN,
     count |-> Len(markets), markets |-> markets]

\* the hit test with the comparison the other way round
MainCacheHitGe(limit, cached) ==
    /\ ~IsNone(cached)
    /\ limit >= Val(cached).count

\* `if cached and (limit <= cached.get("count", 0))`
MainCacheHit(limit, cached) ==
    /\ ~IsNone(cached)
    /\ limit <= Val(cached).count

\* the cached payload handed out whole
MainServeAll(limit, cached) ==
    MainPayload(Val(cached).markets)

\* out = dict(cached); out["markets"] = out["markets"][:limit]; out["count"] = len(...)
MainServe(limit, cached) ==
    MainPayload(PySlice(Val(cached).markets, limit))

\* `if isinstance(limit, int) and limit > 0: addrs = addrs[:limit]`
MainAddrs(limit) ==
    IF limit > 0 THEN PySlice(AllMarkets, limit) ELSE AllMarkets

\* what the try block of a fresh fetch comes to, given the outcomes of its
\* reads: comp (the Comptroller contract), list (getAllMarkets) and loop
MainListResult(comp, list, addrs, loop, c, t) ==
    IF ~comp.ok
    THEN Raised(Exc("comptroller"), Stats(comp.calls, 0, 0, <<>>, {}))
         @@ [cache |-> c]
    ELSE IF ~list.ok
    THEN Raised(Exc("getAllMarkets"),
                Stats(comp.calls + list.calls, list.sleeps, 0, <<>>, {}))
         @@ [cache |-> c]
    ELSE IF ~IsNone(loop.exc)
    THEN Raised(Val(loop.exc),
                Stats(comp.calls + list.calls + loop.calls,
                      list.sleeps + loop.sleeps, 0, addrs, loop.failed))
         @@ [cache |-> c]
    ELSE Returned(MainPayload(loop.items),
                  Stats(comp.calls + list.calls + loop.calls,
                        list.sleeps + loop.sleeps, Len(addrs), addrs, loop.failed))
         @@ [cache |-> CacheSet(MainPayload(loop.items), t)]

\* the try block of a fresh fetch, without the handler; the throttle sleep
\* follows every market
MainListBody(limit, plan, c, t) ==
    MainListResult(Read(plan, "comptroller", 0, "once"),
                   Read(plan, "getAllMarkets", 0, "main"),
                   MainAddrs(limit),
                   LoopMarkets(plan, MainAddrs(limit), MainListReads, "main.list", 1,
                               NoItems),
                   c, t)

\* a handler that also empties the cache slot
MainListHandlerDropsCache(r) ==
    IF r.raised
    THEN [raised |-> FALSE, ret |-> [error |-> <<r.exc.type, r.exc.msg>>],
          st |-> r.st, cache |-> <<>>]
    ELSE r

\* `except Exception as e: return {"error": f"{type(e).__name__}: {e}"}`
MainListHandler(r) ==
    IF r.raised
    THEN [raised |-> FALSE, ret |-> [error |-> <<r.exc.type, r.exc.msg>>],
          st |-> r.st, cache |-> r.cache]
    ELSE r

\* the limit a call without one runs with
MainDefaultLimit(limitArg) ==
    IF IsNone(limitArg) THEN JL_LIST_LIMIT_DEFAULT ELSE Val(limitArg)

\* trustlender_list_markets(limit) called at time t with the cache slot c
TrustlenderListMarkets(limitArg, plan, c, t) ==
    LET limit == MainDefaultLimit(limitArg)
        cached == CacheGet(c, t)
    IN IF MainCacheHit(limit, cached)
       THEN Returned(MainServe(limit, cached), Stats(0, 0, 0, <<>>, {}))
            @@ [cache |-> c, hit |-> TRUE]
       ELSE MainListHandler(MainListBody(limit, plan, c, t)) @@ [hit |-> FALSE]

(***************************************************************************)
(* backend/justlend_ops.py: list_markets                                   *)
(***************************************************************************)
OpsListReads ==
    <<<<"get_contract", "once">>, <<"symbol", "ops">>, <<"supplyRatePerBlock", "ops">>,
      <<"borrowRatePerBlock", "ops">>, <<"exchangeRateStored", "ops">>,
      <<"totalBorrows", "ops">>, <<"markets", "ops">>>>

\* _resolve_unitroller().split('/')[-1]: the address has no '/', so it is returned whole
OpsNetwork == JL_UNITROLLER_MAIN

\* the structured failure payload of the three tools, with the tool's own extras
OpsError(e, extra) ==
    [success |-> FALSE, error |-> e.msg, error_type |-> e.type, network |-> "unknown"]
    @@ extra

\* `except Exception as e: return {"success": False, "error": str(e), ...}`
OpsHandler(r, extra) ==
    IF r.raised
    THEN [raised |-> FALSE, ret |-> OpsError(r.exc, extra), st |-> r.st]
    ELSE r

\* the throttle of the loops of justlend_ops.py: a sleep before every market
\* but the first
Throttles(n) == Max(n - 1, 0)

\* the limit a call without one runs with
OpsDefaultLimit(limitArg) ==
    IF IsNone(limitArg) THEN JUSTLEND_MAX_MARKETS ELSE Val(limitArg)

\* a list_markets that counts the markets it attempted
OpsListResultCountAttempted(comp, list, addrs, loop, limit) ==
    IF ~comp.ok
    THEN Raised(Exc("comptroller"), Stats(comp.calls, 0, 0, <<>>, {}))
    ELSE IF ~list.ok
    THEN Raised(Exc("getAllMarkets"),
                Stats(comp.calls + list.calls, list.sleeps, 0, <<>>, {}))
    ELSE IF ~IsNone(loop.exc)
    THEN Raised(Val(loop.exc),
                Stats(comp.calls + list.calls + loop.calls,
                      list.sleeps + loop.sleeps, 0, addrs, loop.failed))
    ELSE Returned([success |-> TRUE, network |-> OpsNetwork,
                   unitroller |-> JL_UNITROLLER_MAIN, count |-> Len(addrs),
                   requested_limit |-> limit, markets |-> loop.items],
                  Stats(comp.calls + list.calls + loop.calls,
                        list.sleeps + loop.sleeps,
                        Throttles(Len(addrs)), addrs, loop.failed))

\* what the try block of list_markets comes to, given the outcomes of its reads
OpsListResult(comp, list, addrs, loop, limit) ==
    IF ~comp.ok
    THEN Raised(Exc("comptroller"), Stats(comp.calls, 0, 0, <<>>, {}))
    ELSE IF ~list.ok
    THEN Raised(Exc("getAllMarkets"),
                Stats(comp.calls + list.calls, list.sleeps, 0, <<>>, {}))
    ELSE IF ~IsNone(loop.exc)
    THEN Raised(Val(loop.exc),
                Stats(comp.calls + list.calls + loop.calls,
                      list.sleeps + loop.sleeps, 0, addrs, loop.failed))
    ELSE Returned([success |-> TRUE, network |-> OpsNetwork,
                   unitroller |-> JL_UNITROLLER_MAIN, count |-> Len(loop.items),
                   requested_limit |-> limit, markets |-> loop.items],
                  Stats(comp.calls + list.calls + loop.calls,
                        list.sleeps + loop.sleeps,
                        Throttles(Len(addrs)), addrs, loop.failed))

\* the try block of list_markets, without the handler: addrs = (addrs or [])[:limit]
OpsListBody(limit, plan) ==
    OpsListResult(Read(plan, "comptroller", 0, "once"),
                  Read(plan, "getAllMarkets", 0, "ops"),
                  PySlice(AllMarkets, limit),
                  LoopMarkets(plan, PySlice(AllMarkets, limit), OpsListReads, "ops.list",
                              1, NoItems),
                  limit)

\* list_markets(limit)
OpsListMarkets(limitArg, plan) ==
    OpsHandler(OpsListBody(OpsDefaultLimit(limitArg), plan),
               [count |-> 0, markets |-> <<>>])
    @@ [hit |-> FALSE]

(***************************************************************************)
(* market_detail: justlend_ops.py and main.py                              *)
(***************************************************************************)
\* the reads made to look at a market, then the reads made once it matches;
\* how = "ops" (retried) in justlend_ops.py, "once" in main.py
LookReads(how) == <<<<"get_contract", "once">>, <<"symbol", how>>>>
DetailReads(how) ==
    <<<<"supplyRatePerBlock", how>>, <<"borrowRatePerBlock", how>>,
      <<"exchangeRateStored", how>>, <<"totalBorrows", how>>, <<"markets", how>>>>

\* the counters after looking at market a, the i-th of the list
Looked(st, look, a, i, throttled) ==
    Stats(st.calls + look.calls, st.sleeps + look.sleeps,
          st.throttles + (IF throttled /\ i > 1 THEN 1 ELSE 0),
          Append(st.seen, a),
          IF look.ok THEN st.failed ELSE {a})

\* the matching market a: the outcome of its detail reads `rest`
Matched(st, rest, a) ==
    IF rest.ok
    THEN [kind |-> "found", market |-> a,
          st |-> [st EXCEPT !.calls = @ + rest.calls, !.sleeps = @ + rest.sleeps]]
    ELSE [kind |-> "raised", exc |-> Exc(rest.failedFn),
          st |-> [st EXCEPT !.calls = @ + rest.calls, !.sleeps = @ + rest.sleeps,
                            !.failed = {a}]]

\* a scan that passes over a market whose contract or symbol cannot be read
RECURSIVE DetailScanSkip(_, _, _, _, _, _, _)
DetailScanSkip(plan, symbol, how, throttled, i, st, look) ==
    IF i > Len(AllMarkets)
    THEN [kind |-> "notfound", st |-> st]
    ELSE IF look.ok /\ Lower(Symbol(AllMarkets[i])) = Lower(symbol)
    THEN Matched(Looked(st, look, AllMarkets[i], i, throttled),
                 RunReads(plan, AllMarkets[i], DetailReads(how), 1, NoReads),
                 AllMarkets[i])
    ELSE DetailScanSkip(plan, symbol, how, throttled, i + 1,
                        Looked(st, [look EXCEPT !.ok = TRUE], AllMarkets[i], i, throttled),
                        IF i + 1 > Len(AllMarkets) THEN NoReads
                        ELSE RunReads(plan, AllMarkets[i + 1], LookReads(how), 1, NoReads))

\* `for i, addr in enumerate(all_markets):` from the i-th market on, `look`
\* being the outcome of reading the i-th market's contract and symbol; throttled
\* says whether the loop sleeps before every market but the first
RECURSIVE DetailScan(_, _, _, _, _, _, _)
DetailScan(plan, symbol, how, throttled, i, st, look) ==
    IF i > Len(AllMarkets)
    THEN [kind |-> "notfound", st |-> st]
    ELSE IF ~look.ok
    THEN [kind |-> "raised", exc |-> Exc(look.failedFn),
          st |-> Looked(st, look, AllMarkets[i], i, throttled)]
    ELSE IF Lower(Symbol(AllMarkets[i])) = Lower(symbol)
    THEN Matched(Looked(st, look, AllMarkets[i], i, throttled),
                 RunReads(plan, AllMarkets[i], DetailReads(how), 1, NoReads),
                 AllMarkets[i])
    ELSE DetailScan(plan, symbol, how, throttled, i + 1,
                    Looked(st, look, AllMarkets[i], i, throttled),
                    IF i + 1 > Len(AllMarkets) THEN NoReads
                    ELSE RunReads(plan, AllMarkets[i + 1], LookReads(how), 1, NoReads))

\* what the try block of market_detail comes to, given the outcomes of its
\* top-level reads and of the scan; found[a] and notFound are the normal results
DetailResult(comp, list, scan, found, notFound) ==
    IF ~comp.ok
    THEN Raised(Exc("comptroller"), Stats(comp.calls, 0, 0, <<>>, {}))
    ELSE IF ~list.ok
    THEN Raised(Exc("getAllMarkets"),
                Stats(comp.calls + list.calls, list.sleeps, 0, <<>>, {}))
    ELSE IF scan.kind = "raised" THEN Raised(scan.exc, scan.st)
    ELSE IF scan.kind = "found" THEN Returned(found[scan.market], scan.st)
    ELSE Returned(notFound, scan.st)

\* the counters when the loop over the markets starts
ScanStart(comp, list) == Stats(comp.calls + list.calls, list.sleeps, 0, <<>>, {})

\* the try block of either market_detail, without the handler
DetailBody(plan, symbol, how, throttled, found, notFound) ==
    DetailResult(Read(plan, "comptroller", 0, "once"),
                 Read(plan, "getAllMarkets", 0, how),
                 DetailScan(plan, symbol, how, throttled, 1,
                            ScanStart(Read(plan, "comptroller", 0, "once"),
                                      Read(plan, "getAllMarkets", 0, how)),
                            RunReads(plan, AllMarkets[1], LookReads(how), 1, NoReads)),
                 found, notFound)

\* the result of justlend_ops.market_detail for the matching market a
OpsDetailFound(a) ==
    [success |-> TRUE, network |-> OpsNetwork, unitroller |-> JL_UNITROLLER_MAIN,
     market |-> Entry("ops.detail", a)]

\* the result of justlend_ops.market_detail when no market matches
OpsDetailNotFound(symbol) ==
    [success |-> FALSE, error |-> <<"not found", symbol>>,
     error_type |-> "MarketNotFound", network |-> OpsNetwork,
     symbol_requested |-> symbol]

\* justlend_ops.market_detail(symbol)
OpsMarketDetail(symbol, plan) ==
    OpsHandler(DetailBody(plan, symbol, "ops", TRUE,
                          [a \in 1 .. NumMarkets |-> OpsDetailFound(a)],
                          OpsDetailNotFound(symbol)),
               [symbol_requested |-> symbol])
    @@ [hit |-> FALSE]

MainDetailFound(a) ==
    [network |-> TRON_NETWORK, unitroller |-> JL_UNITROLLER_MAIN,
     market |-> Entry("main.detail", a)]

\* main.py: `return {"error": f"Market symbol '{symbol}' not found ...", "network": ...}`
MainDetailNotFound(symbol) ==
    [error |-> <<"not found", symbol>>, network |-> TRON_NETWORK]

\* `except Exception as e: return {"error": ..., "network": TRON_NETWORK}`
MainHandler(r) ==
    IF r.raised
    THEN [raised |-> FALSE,
          ret |-> [error |-> <<r.exc.type, r.exc.msg>>, network |-> TRON_NETWORK],
          st |-> r.st]
    ELSE r

\* main.py: trustlender_market_detail(symbol); no read is retried or throttled
TrustlenderMarketDetail(symbol, plan) ==
    MainHandler(DetailBody(plan, symbol, "once", FALSE,
                           [a \in 1 .. NumMarkets |-> MainDetailFound(a)],
                           MainDetailNotFound(symbol)))
    @@ [hit |-> FALSE]

(***************************************************************************)
(* user_position: justlend_ops.py and main.py                              *)
(***************************************************************************)
PositionReads(how) ==
    <<<<"get_contract", "once">>, <<"symbol", how>>, <<"getAccountSnapshot", how>>>>

\* a user_position that returns the positions whatever the aggregate read did
PositionResultAnyLiquidity(comp, list, loop, liq, throttled) ==
    IF ~comp.ok
    THEN Raised(Exc("comptroller"), Stats(comp.calls, 0, 0, <<>>, {}))
    ELSE IF ~list.ok
    THEN Raised(Exc("getAllMarkets"),
                Stats(comp.calls + list.calls, list.sleeps, 0, <<>>, {}))
    ELSE Returned([positions |-> loop.items, liquidity_mantissa |-> Liquidity,
                   shortfall_mantissa |-> Shortfall],
                  Stats(comp.calls + list.calls + loop.calls + liq.calls,
                        list.sleeps + loop.sleeps + liq.sleeps,
                        IF throttled THEN Throttles(Len(AllMarkets)) ELSE 0,
                        AllMarkets, loop.failed))

\* what the try block of user_position comes to, given the outcomes of its
\* reads: comp, list, the loop over the markets and liq (getAccountLiquidity)
PositionResult(comp, list, loop, liq, throttled) ==
    IF ~comp.ok
    THEN Raised(Exc("comptroller"), Stats(comp.calls, 0, 0, <<>>, {}))
    ELSE IF ~list.ok
    THEN Raised(Exc("getAllMarkets"),
                Stats(comp.calls + list.calls, list.sleeps, 0, <<>>, {}))
    ELSE IF ~IsNone(loop.exc)
    THEN Raised(Val(loop.exc),
                Stats(comp.calls + list.calls + loop.calls, list.sleeps + loop.sleeps,
                      IF throttled THEN Throttles(Len(AllMarkets)) ELSE 0,
                      AllMarkets, loop.failed))
    ELSE IF ~liq.ok
    THEN Raised(Exc("getAccountLiquidity"),
                Stats(comp.calls + list.calls + loop.calls + liq.calls,
                      list.sleeps + loop.sleeps + liq.sleeps,
                      IF throttled THEN Throttles(Len(AllMarkets)) ELSE 0,
                      AllMarkets, loop.failed))
    ELSE Returned([positions |-> loop.items, liquidity_mantissa |-> Liquidity,
                   shortfall_mantissa |-> Shortfall],
                  Stats(comp.calls + list.calls + loop.calls + liq.calls,
                        list.sleeps + loop.sleeps + liq.sleeps,
                        IF throttled THEN Throttles(Len(AllMarkets)) ELSE 0,
                        AllMarkets, loop.failed))

\* the try block of either user_position, without the handler
PositionBody(plan, how, throttled) ==
    PositionResult(Read(plan, "comptroller", 0, "once"),
                   Read(plan, "getAllMarkets", 0, how),
                   LoopMarkets(plan, AllMarkets, PositionReads(how), "position", 1,
                               NoItems),
                   Read(plan, "getAccountLiquidity", 0, how),
                   throttled)

\* the values a returned body carries, dressed as the tool's payload
WithFields(r, fields) ==
    IF r.raised THEN r ELSE [r EXCEPT !.ret = @ @@ fields]

\* justlend_ops.user_position(address)
OpsUserPosition(address, plan) ==
    OpsHandler(WithFields(PositionBody(plan, "ops", TRUE),
                          [success |-> TRUE, network |-> OpsNetwork,
                           address |-> address]),
               [address |-> address])
    @@ [hit |-> FALSE]

\* main.py: trustlender_user_position(address); no read is retried or throttled
TrustlenderUserPosition(address, plan) ==
    MainHandler(WithFields(PositionBody(plan, "once", FALSE),
                           [network |-> TRON_NETWORK, address |-> address]))
    @@ [hit |-> FALSE]

UserAddress == "TUserWallet"

(***************************************************************************)
(* One call of _with_retries on drawn inputs                               *)
(***************************************************************************)
InitTools ==
    /\ now = 0
    /\ cache = None
    /\ last = [phase |-> "none"]
    /\ chat = [phase |-> "none"]

InitRetry ==
    /\ \E inp \in RetryInputs : rt = [phase |-> "input", inp |-> inp]
    /\ InitTools

RetryCall ==
    /\ rt.phase = "input"
    /\ LET inp == rt.inp IN
       rt' = [phase |-> "done", inp |-> inp,
              out |-> IF inp.args.impl = "main"
                      THEN WithRetries(inp.fails, Val(inp.args.max), Val(inp.args.base),
                                       inp.factors)
                      ELSE TcWithRetries(inp.fails, inp.args.max, inp.args.base,
                                         inp.factors)]
    /\ UNCHANGED <<now, cache, last, chat>>

NextRetry == RetryCall

SpecRetry == InitRetry /\ [][NextRetry]_vars

(***************************************************************************)
(* One call of a tool on drawn inputs, from a freshly started process      *)
(***************************************************************************)
ToolInputs ==
    { [op |-> o, arg |-> l, plan |-> p]
        : o \in {"main.list_markets", "ops.list_markets"}, l \in LimitArgs, p \in Plans }
    \cup
    { [op |-> o, arg |-> y, plan |-> p]
        : o \in {"main.market_detail", "ops.market_detail"}, y \in SymbolArgs, p \in Plans }
    \cup
    { [op |-> o, arg |-> UserAddress, plan |-> p]
        : o \in {"main.user_position", "ops.user_position"}, p \in Plans }

\* what is remembered of a completed call: its inputs, the cache slot and time
\* it started with, what it returned (or the exception it let through) and its
\* counters
Done(inp, c, t, r) ==
    [phase |-> "done", op |-> inp.op, arg |-> inp.arg, plan |-> inp.plan,
     pre |-> c, at |-> t, raised |-> r.raised,
     ret |-> IF r.raised THEN [exception |-> r.exc] ELSE r.ret,
     hit |-> r.hit, calls |-> r.st.calls, sleeps |-> r.st.sleeps,
     throttles |-> r.st.throttles, seen |-> r.st.seen, failed |-> r.st.failed]

InitCall ==
    /\ rt = [phase |-> "none"]
    /\ chat = [phase |-> "none"]
    /\ now = 0
    /\ cache = None
    /\ \E inp \in ToolInputs : last = [phase |-> "input"] @@ inp

Drawn(op) == last.phase = "input" /\ last.op = op

CallMainList ==
    /\ Drawn("main.list_markets")
    /\ LET r == TrustlenderListMarkets(last.arg, last.plan, cache, now) IN
        /\ last' = Done(last, cache, now, r)
        /\ cache' = r.cache
    /\ UNCHANGED <<rt, now, chat>>

CallOpsList ==
    /\ Drawn("ops.list_markets")
    /\ last' = Done(last, cache, now, OpsListMarkets(last.arg, last.plan))
    /\ UNCHANGED <<rt, now, cache, chat>>

CallMainDetail ==
    /\ Drawn("main.market_detail")
    /\ last' = Done(last, cache, now, TrustlenderMarketDetail(last.arg, last.plan))
    /\ UNCHANGED <<rt, now, cache, chat>>

CallOpsDetail ==
    /\ Drawn("ops.market_detail")
    /\ last' = Done(last, cache, now, OpsMarketDetail(last.arg, last.plan))
    /\ UNCHANGED <<rt, now, cache, chat>>

CallMainPosition ==
    /\ Drawn("main.user_position")
    /\ last' = Done(last, cache, now, TrustlenderUserPosition(last.arg, last.plan))
    /\ UNCHANGED <<rt, now, cache, chat>>

CallOpsPosition ==
    /\ Drawn("ops.user_position")
    /\ last' = Done(last, cache, now, OpsUserPosition(last.arg, last.plan))
    /\ UNCHANGED <<rt, now, cache, chat>>

NextCall ==
    \/ CallMainList
    \/ CallOpsList
    \/ CallMainDetail
    \/ CallOpsDetail
    \/ CallMainPosition
    \/ CallOpsPosition

SpecTools == InitCall /\ [][NextCall]_vars

(***************************************************************************)
(* The running process: list_markets calls over the cache slot and clock   *)
(***************************************************************************)
\* what the upstream does during a list_markets call of a running process: all
\* is well, the first market's symbol cannot be read, or getAllMarkets is down
ListPlans ==
    { [fn |-> "symbol", bad |-> b, pre |-> 0] : b \in {{}, {AllMarkets[1]}} }
    \cup
    { [fn |-> "getAllMarkets", bad |-> {0}, pre |-> 0] }

Init ==
    /\ rt = [phase |-> "none"]
    /\ InitTools

MainList ==
    \E limitArg \in LimitArgs, plan \in ListPlans :
        LET r == TrustlenderListMarkets(limitArg, plan, cache, now) IN
        /\ last' = Done([op |-> "main.list_markets", arg |-> limitArg, plan |-> plan],
                        cache, now, r)
        /\ cache' = r.cache
        /\ UNCHANGED <<rt, now, chat>>

OpsList ==
    \E limitArg \in LimitArgs, plan \in ListPlans :
        /\ last' = Done([op |-> "ops.list_markets", arg |-> limitArg, plan |-> plan],
                        cache, now, OpsListMarkets(limitArg, plan))
        /\ UNCHANGED <<rt, now, cache, chat>>

\* time.time() moves on between calls
Tick ==
    /\ now + JL_CACHE_TTL_SEC <= MaxTicks * JL_CACHE_TTL_SEC
    /\ now' = now + JL_CACHE_TTL_SEC
    /\ UNCHANGED <<rt, cache, last, chat>>

Next ==
    \/ MainList
    \/ OpsList
    \/ Tick

Spec == Init /\ [][Next]_vars

(***************************************************************************)
(* backend/llm_planner.py: plan_with_llm                                   *)
(***************************************************************************)
\* planned items per response
MaxItems == 2

\* JSON values as json.loads returns them
JNull == [kind |-> "null", val |-> <<>>]
JNum(n) == [kind |-> "num", val |-> <<n>>]
JStr(s) == [kind |-> "str", val |-> s]
JList(q) == [kind |-> "list", val |-> q]
JObj(f) == [kind |-> "obj", val |-> f]
JBool(b) == [kind |-> "bool", val |-> <<b>>]
NoKeys == <<>>

\* bool(v)
Truthy(v) ==
    CASE v.kind = "null" -> FALSE
      [] v.kind = "bool" -> v.val[1]
      [] v.kind = "num" -> v.val # <<0>>
      [] v.kind = "str" -> v.val # ""
      [] v.kind = "list" -> Len(v.val) > 0
      [] OTHER -> DOMAIN v.val # {}

\* hash(v) raises TypeError for a list and for a dict
Hashable(v) == v.kind \notin {"list", "obj"}

\* d.get(key)
DictGet(d, key) == IF key \in DOMAIN d.val THEN d.val[key] ELSE JNull

\* TOOL_SPEC: the argument schema of each tool of the catalog
TOOL_SPEC ==
    [wallet_check_tronlink |-> NoKeys,
     wallet_connect |-> NoKeys,
     wallet_fetch_balance |-> NoKeys,
     trustlender_list_markets |-> [limit |-> "int"],
     trustlender_market_detail |-> [symbol |-> "string"],
     trustlender_user_position |-> [address |-> "string"]]

\* the `type` values and `args` values the planner's items carry
TypeVals ==
    {JStr("trustlender_list_markets"), JStr("wallet_connect"), JStr("delete_wallet"),
     JNull, JNum(7), JList(<<>>), JObj(NoKeys)}
GoodArgs == JObj([limit |-> JNum(6)])
ArgVals ==
    {GoodArgs, JNull, JObj(NoKeys), JObj([limit |-> JStr("six")]), JStr("6"), JNum(0),
     JList(<<JNum(6)>>)}

\* the items of a planner response: mappings with or without `type` and
\* `args`, and values that are no mapping
PlanItemVals ==
    { JObj([type |-> t]) : t \in TypeVals }
    \cup { JObj([type |-> t, args |-> GoodArgs]) : t \in TypeVals }
    \cup { JObj([type |-> JStr("trustlender_list_markets"), args |-> a]) : a \in ArgVals }
    \cup { JObj([args |-> GoodArgs]), JStr("wallet_connect"), JNum(1) }

PlanLists == UNION { SeqsOfLen(PlanItemVals, n) : n \in 0 .. MaxItems }

\* what json.loads is given: text that is no JSON, or the text of a value
NotJson == [kind |-> "invalid", val |-> <<>>]
ParsedVals ==
    { JList(q) : q \in PlanLists }
    \cup { JObj([function_calls |-> JList(q)]) : q \in PlanLists }
    \cup { JObj([function_calls |-> JStr("none")]), JObj([calls |-> JList(<<>>)]),
           JStr("no tools needed"), JNum(0), JNull, NotJson }

\* the planner LLM's answer: the call raises, or it returns content with or
\* without an opening and a closing ``` fence
PlannerResponses ==
    { [kind |-> "error"] }
    \cup { [kind |-> "content", open |-> o, close |-> c, body |-> b]
             : o \in BOOLEAN, c \in BOOLEAN, b \in ParsedVals }

\* json.loads that overlooks a trailing fence
JsonLoadsLenient(resp) == resp.body

\* the fence stripping, then json.loads: a closing fence is removed only when
\* the content starts with one
JsonLoads(resp) ==
    IF ~resp.open /\ resp.close THEN NotJson ELSE resp.body

\* `for i, item in enumerate(parsed):` from the i-th item on; `t not in
\* TOOL_SPEC` hashes t
RECURSIVE Sanitize(_, _, _)
Sanitize(parsed, i, calls) ==
    IF i > Len(parsed) THEN [raised |-> FALSE, calls |-> calls]
    ELSE IF parsed[i].kind # "obj" THEN Sanitize(parsed, i + 1, calls)
    ELSE IF ~Hashable(DictGet(parsed[i], "type"))
    THEN [raised |-> TRUE, calls |-> calls]
    ELSE IF ~(/\ DictGet(parsed[i], "type").kind = "str"
              /\ DictGet(parsed[i], "type").val \in DOMAIN TOOL_SPEC)
    THEN Sanitize(parsed, i + 1, calls)
    ELSE Sanitize(parsed, i + 1,
                  Append(calls,
                         [type |-> DictGet(parsed[i], "type").val,
                          args |-> IF Truthy(DictGet(parsed[i], "args"))
                                   THEN DictGet(parsed[i], "args")
                                   ELSE JObj(NoKeys)]))

\* `if isinstance(parsed, dict) and "function_calls" in parsed:`
Unwrap(parsed) ==
    IF parsed.kind = "obj" /\ "function_calls" \in DOMAIN parsed.val
    THEN parsed.val["function_calls"]
    ELSE parsed

\* the try block after json.loads
PlanParsed(parsed) ==
    IF parsed.kind = "invalid" THEN [raised |-> TRUE, calls |-> <<>>]
    ELSE IF Unwrap(parsed).kind # "list" THEN [raised |-> FALSE, calls |-> <<>>]
    ELSE Sanitize(Unwrap(parsed).val, 1, <<>>)

\* `except Exception as e: return []`
PlanHandler(r) == IF r.raised THEN <<>> ELSE r.calls

\* plan_with_llm(client_llm, session_id, user_text, model)
PlanWithLlm(resp) ==
    IF resp.kind = "error" THEN PlanHandler([raised |-> TRUE, calls |-> <<>>])
    ELSE PlanHandler(PlanParsed(JsonLoads(resp)))

InitPlan ==
    /\ rt = [phase |-> "none"]
    /\ now = 0
    /\ cache = None
    /\ last = [phase |-> "none"]
    /\ \E resp \in PlannerResponses : chat = [phase |-> "asked", resp |-> resp]

PlanCall ==
    /\ chat.phase = "asked"
    /\ chat' = [phase |-> "planned", resp |-> chat.resp, plan |-> PlanWithLlm(chat.resp)]
    /\ UNCHANGED <<rt, now, cache, last>>

NextPlan == PlanCall

SpecPlan == InitPlan /\ [][NextPlan]_vars

(***************************************************************************)
(* backend/main.py: extract_facts, node_extract, node_assistant, the graph *)
(***************************************************************************)
\* keys named by one `forget` list
MaxForget == 2

ProfileKeys == {"a", "b"}
ProfileVals == {"1", "2"}
\* Dict[str, str] over the keys in play
Dicts == UNION { [d -> ProfileVals] : d \in SUBSET ProfileKeys }
ForgetLists == UNION { SeqsOfLen(ProfileKeys, n) : n \in 0 .. MaxForget }

\* ProfileFacts(facts=..., forget=...), and ProfileFacts()
ProfileFacts(facts, forget) == [facts |-> facts, forget |-> forget]
EmptyFacts == ProfileFacts(<<>>, <<>>)
FactSets == { ProfileFacts(f, g) : f \in Dicts, g \in ForgetLists }

\* the structured-output call: it raises, or returns a ProfileFacts
StructuredOutcomes ==
    { [kind |-> "error"] } \cup { [kind |-> "facts", pf |-> pf] : pf \in FactSets }

\* the fallback call: it raises, or returns text: without braces, with an
\* outermost {...} span that is no JSON, or one that is a JSON object whose
\* facts/forget have a wrong type, are left out, or are well-typed
RawOutcomes ==
    { [kind |-> "error"], [kind |-> "text", span |-> "none"],
      [kind |-> "text", span |-> "invalid"],
      [kind |-> "text", span |-> "facts is a string"],
      [kind |-> "text", span |-> "forget is a string"],
      [kind |-> "text", span |-> "no keys"] }
    \cup { [kind |-> "text", span |-> "object", pf |-> pf] : pf \in FactSets }

\* the second try block of extract_facts, with its handler
FallbackParse(raw) ==
    IF raw.kind = "error" THEN EmptyFacts
    ELSE IF raw.span = "none" THEN ProfileFacts(<<>>, <<>>)
    ELSE IF raw.span \in {"invalid", "facts is a string", "forget is a string"}
    THEN EmptyFacts
    ELSE IF raw.span = "no keys" THEN ProfileFacts(<<>>, <<>>)
    ELSE raw.pf

\* an extractor that gives up when the structured call fails, letting the
\* provider's exception through
ExtractFactsNoFallback(structured, raw) ==
    IF structured.kind = "facts" THEN [raised |-> FALSE, pf |-> structured.pf]
    ELSE [raised |-> TRUE, pf |-> EmptyFacts]

\* extract_facts(llm, text, prior)
ExtractFacts(structured, raw) ==
    IF structured.kind = "facts" THEN [raised |-> FALSE, pf |-> structured.pf]
    ELSE [raised |-> FALSE, pf |-> FallbackParse(raw)]

\* `for k in pf.forget: new_profile.pop(k, None)` from the i-th key on
RECURSIVE PopAll(_, _, _)
PopAll(profile, forget, i) ==
    IF i > Len(forget) THEN profile
    ELSE PopAll([k \in DOMAIN profile \ {forget[i]} |-> profile[k]], forget, i + 1)

\* new_profile.update(pf.facts)
DictUpdate(profile, facts) ==
    [k \in DOMAIN profile \cup DOMAIN facts |->
        IF k \in DOMAIN facts THEN facts[k] ELSE profile[k]]

\* the merge done the other way round: facts first, then the deletions
MergeForgetLast(profile, pf) ==
    PopAll(DictUpdate(profile, pf.facts), pf.forget, 1)

\* new_profile = dict(state.profile); pop the forgotten keys; update with the facts
MergeProfile(profile, pf) ==
    DictUpdate(PopAll(profile, pf.forget, 1), pf.facts)

Msg(role, kind, val) == [role |-> role, content |-> [kind |-> kind, val |-> val]]

\* the latest human message's content, "" when there is none
RECURSIVE LatestHuman(_, _)
LatestHuman(messages, i) ==
    IF i = 0 THEN ""
    ELSE IF messages[i].role = "human" THEN messages[i].content.val
    ELSE LatestHuman(messages, i - 1)

\* node_extract(state): the state's update, or the exception it lets through
NodeExtractResult(state, x) ==
    IF LatestHuman(state.messages, Len(state.messages)) = ""
    THEN [raised |-> FALSE, profile |-> state.profile, messages |-> state.messages,
          extracted |-> FALSE]
    ELSE IF x.raised
    THEN [raised |-> TRUE, profile |-> state.profile, messages |-> state.messages,
          extracted |-> TRUE]
    ELSE [raised |-> FALSE,
          profile |-> MergeProfile(state.profile, x.pf),
          messages |-> IF DOMAIN x.pf.facts # {}
                       THEN Append(state.messages, Msg("ai", "noted", x.pf.facts))
                       ELSE state.messages,
          extracted |-> TRUE]

\* what tool_agent.invoke returns: the output and the intermediate steps
AgentTools == {"get_wallet_info", "trustlender_list_markets", "search_docs"}
AgentResults ==
    { [output |-> "Here you go.", steps |-> q]
        : q \in {<<>>} \cup { <<t>> : t \in AgentTools }
                \cup { <<"trustlender_list_markets", "get_wallet_info">> } }

\* `for action, obs in steps:` from the i-th step on
RECURSIVE FunctionCalls(_, _, _)
FunctionCalls(steps, i, acc) ==
    IF i > Len(steps) THEN acc
    ELSE IF steps[i] = "get_wallet_info"
    THEN FunctionCalls(steps, i + 1, Append(acc, "wallet_info_request"))
    ELSE IF steps[i] \in {"trustlender_list_markets", "trustlender_market_detail",
                          "trustlender_user_position"}
    THEN FunctionCalls(steps, i + 1, Append(acc, steps[i]))
    ELSE FunctionCalls(steps, i + 1, acc)

\* node_assistant(state), given the result of its one tool_agent.invoke
NodeAssistantResult(state, result) ==
    IF FunctionCalls(result.steps, 1, <<>>) # <<>>
    THEN state.messages \o <<Msg("ai", "text", result.output),
                             Msg("ai", "calls", FunctionCalls(result.steps, 1, <<>>))>>
    ELSE Append(state.messages, Msg("ai", "text", result.output))

\* the chat history of the session and the message of the turn
Histories == {<<>>, <<Msg("human", "text", "hi"), Msg("ai", "text", "Hello!")>>}
UserTexts == {"", "call me a"}

\* what the LLMs answer during one turn; the fallback is consulted only when
\* the structured call has failed
TurnInputs ==
    { [structured |-> st, raw |-> [kind |-> "error"], agent |-> ag]
        : st \in StructuredOutcomes \ {[kind |-> "error"]}, ag \in AgentResults }
    \cup
    { [structured |-> [kind |-> "error"], raw |-> rw, agent |-> ag]
        : rw \in RawOutcomes, ag \in AgentResults }

\* graph.invoke(state_in): entry point `extract`
InitTurn ==
    /\ rt = [phase |-> "none"]
    /\ now = 0
    /\ cache = None
    /\ last = [phase |-> "none"]
    /\ \E h \in Histories, u \in UserTexts, prior \in Dicts, inp \in TurnInputs :
          chat = [phase |-> "extract", inp |-> inp, prior |-> prior,
                  messages |-> Append(h, Msg("human", "text", u)),
                  profile |-> prior, extracted |-> FALSE, agentCalls |-> 0]

\* the node `extract`, then the edge extract -> assistant; an exception ends
\* the turn
NodeExtract ==
    /\ chat.phase = "extract"
    /\ LET r == NodeExtractResult(chat, ExtractFacts(chat.inp.structured, chat.inp.raw)) IN
       chat' = [chat EXCEPT !.phase = IF r.raised THEN "aborted" ELSE "assistant",
                            !.profile = r.profile,
                            !.messages = r.messages,
                            !.extracted = r.extracted]
    /\ UNCHANGED <<rt, now, cache, last>>

\* a graph with an edge from `assistant` back to `extract`
NodeAssistantThenExtract ==
    /\ chat.phase = "assistant"
    /\ chat' = [chat EXCEPT !.phase = "extract",
                            !.messages = NodeAssistantResult(chat, chat.inp.agent),
                            !.agentCalls = @ + 1]
    /\ UNCHANGED <<rt, now, cache, last>>

\* the node `assistant`, then the edge assistant -> END
NodeAssistant ==
    /\ chat.phase = "assistant"
    /\ chat' = [chat EXCEPT !.phase = "end",
                            !.messages = NodeAssistantResult(chat, chat.inp.agent),
                            !.agentCalls = @ + 1]
    /\ UNCHANGED <<rt, now, cache, last>>

NextTurn ==
    \/ NodeExtract
    \/ NodeAssistant

SpecTurn == InitTurn /\ [][NextTurn]_vars

(***************************************************************************)
(* TEST/app.py: planner_node, executor_node and the workflow               *)
(***************************************************************************)
\* tool calls in one LLM response
MaxCalls == 2

\* the names of ALL_TOOLS, and of the discovery tool
ALL_TOOLS == {"calculator", "web_search", "get_weather", "fx_rate", "crypto_price"}
DISCOVERY_TOOL == "search_available_tools"

\* a tool call of a response: the name the LLM gives and whether the tool's
\* handler, if there is one, raises
ToolCall(name, raises) == [name |-> name, raises |-> raises]
ToolCallVals ==
    {ToolCall("get_weather", FALSE), ToolCall("get_weather", TRUE),
     ToolCall("fx_rate", FALSE), ToolCall("delete_wallet", FALSE)}
ToolCallLists == UNION { SeqsOfLen(ToolCallVals, n) : n \in 0 .. MaxCalls }

\* what the LLMs answer during one turn of the workflow: the planner's tool
\* calls, the names the discovery finds, the executor's tool calls
FlowInputs ==
    { [planner |-> pc, found |-> f, executor |-> ec]
        : pc \in {<<>>, <<DISCOVERY_TOOL>>, <<"get_weather">>},
          f \in {<<>>, <<"get_weather", "fx_rate">>},
          ec \in ToolCallLists }

\* an entry of state.trace, a message of state.messages, an entry of the log
\* of LLM invocations and tool handlers run
TraceEntry(type, who, tool) == [type |-> type, who |-> who, tool |-> tool]
FlowMsg(role, name, content) == [role |-> role, name |-> name, content |-> content]
Event(ev, who) == [ev |-> ev, who |-> who]

\* planner_node: the body of `for tc in res.tool_calls:` from the i-th call on
RECURSIVE PlannerCalls(_, _, _, _)
PlannerCalls(st, calls, found, i) ==
    IF i > Len(calls) THEN st
    ELSE PlannerCalls(
            [st EXCEPT
                !.trace = @ \o <<TraceEntry("tool_call", "planner", calls[i]),
                                 TraceEntry("tool_result", "planner", calls[i])>>,
                !.discovered_tools = IF calls[i] = DISCOVERY_TOOL THEN found ELSE @,
                !.events = IF calls[i] = DISCOVERY_TOOL
                           THEN Append(@, Event("invoke", calls[i])) ELSE @,
                !.messages = Append(@, FlowMsg("tool", calls[i],
                                               IF calls[i] = DISCOVERY_TOOL
                                               THEN <<"found", calls[i]>>
                                               ELSE <<"unknown discovery tool", calls[i]>>))],
            calls, found, i + 1)

\* planner_node(state)
PlannerNode(st, inp) ==
    PlannerCalls([st EXCEPT !.events = Append(@, Event("llm", "planner")),
                            !.messages = Append(@, FlowMsg("assistant", "",
                                                           <<"text", "planner">>))],
                 inp.planner, inp.found, 1)

\* the dispatch of one tool call: the result, and whether a handler ran
Dispatch(tc) ==
    IF tc.name \notin ALL_TOOLS THEN [result |-> <<"Unknown tool", tc.name>>, ran |-> FALSE]
    ELSE IF tc.raises THEN [result |-> <<"Tool error", tc.name>>, ran |-> TRUE]
    ELSE [result |-> <<"result", tc.name>>, ran |-> TRUE]

\* executor_node: the body of `for tc in res.tool_calls:` from the i-th call on
RECURSIVE ExecutorCalls(_, _, _)
ExecutorCalls(st, calls, i) ==
    IF i > Len(calls) THEN st
    ELSE ExecutorCalls(
            [st EXCEPT
                !.trace = @ \o <<TraceEntry("tool_call", "executor", calls[i].name),
                                 TraceEntry("tool_result", "executor", calls[i].name)>>,
                !.events = IF Dispatch(calls[i]).ran
                           THEN Append(@, Event("invoke", calls[i].name)) ELSE @,
                !.messages = Append(@, FlowMsg("tool", calls[i].name,
                                               Dispatch(calls[i]).result))],
            calls, i + 1)

\* a final step that summarizes whether or not a tool was called
SummarizeAlways(st, calls) ==
    [st EXCEPT !.events = Append(@, Event("llm", "summarizer")),
               !.messages = Append(@, FlowMsg("assistant", "", <<"text", "summary">>))]

\* `if res.tool_calls: ... final = llm_base.invoke(...)`: the summary follows
\* the tool calls, and is made only when there were some
Summarize(st, calls) ==
    IF calls = <<>> THEN st
    ELSE [st EXCEPT !.events = Append(@, Event("llm", "summarizer")),
                    !.messages = Append(@, FlowMsg("assistant", "",
                                                   <<"text", "summary">>))]

\* the tools the executor's prompt lists
Hint(st) == IF st.discovered_tools # <<>> THEN st.discovered_tools ELSE <<"catalog">>

\* executor_node(state)
ExecutorNode(st, inp) ==
    Summarize(
        ExecutorCalls([st EXCEPT !.hint = Hint(st),
                                 !.events = Append(@, Event("llm", "executor")),
                                 !.messages = Append(@, FlowMsg("assistant", "",
                                                                <<"text", "executor">>))],
                      inp.executor, 1),
        inp.executor)

\* app_graph.stream(state): entry point `planner`
InitFlow ==
    /\ rt = [phase |-> "none"]
    /\ now = 0
    /\ cache = None
    /\ last = [phase |-> "none"]
    /\ \E inp \in FlowInputs :
          chat = [phase |-> "planner", inp |-> inp,
                  messages |-> <<FlowMsg("user", "", <<"text", "question">>)>>,
                  trace |-> <<>>, discovered_tools |-> <<>>, hint |-> <<>>,
                  events |-> <<>>]

\* the node `planner`, then the edge planner -> executor
FlowPlanner ==
    /\ chat.phase = "planner"
    /\ chat' = [PlannerNode(chat, chat.inp) EXCEPT !.phase = "executor"]
    /\ UNCHANGED <<rt, now, cache, last>>

\* the node `executor`, then the edge executor -> END
FlowExecutor ==
    /\ chat.phase = "executor"
    /\ chat' = [ExecutorNode(chat, chat.inp) EXCEPT !.phase = "end"]
    /\ UNCHANGED <<rt, now, cache, last>>

NextFlow ==
    \/ FlowPlanner
    \/ FlowExecutor

SpecFlow == InitFlow /\ [][NextFlow]_vars

(***************************************************************************)
(* TEST/phase4.py: agent_node, tool_node and the graph                     *)
(***************************************************************************)
\* responses with tool calls the LLM gives before it answers without any
MaxRounds == 2

\* `tools = [add]`
Phase4Tools == {"add"}
\* the names the LLM calls: a bound tool, and a tool that is defined but not bound
Phase4Names == {"add", "get_wallet_balance"}
Phase4CallLists == UNION { SeqsOfLen(Phase4Names, n) : n \in 1 .. MaxCalls }
Phase4Scripts == UNION { SeqsOfLen(Phase4CallLists, n) : n \in 0 .. MaxRounds }

\* tool_node: the body of `for tc in last.tool_calls:` from the i-th call on;
\* `next(t for t in tools if t.name == name)` raises StopIteration when no
\* tool has the name
RECURSIVE ToolNodeCalls(_, _, _)
ToolNodeCalls(calls, i, ran) ==
    IF i > Len(calls) THEN [raised |-> FALSE, ran |-> ran]
    ELSE IF calls[i] \notin Phase4Tools THEN [raised |-> TRUE, ran |-> ran]
    ELSE ToolNodeCalls(calls, i + 1, Append(ran, calls[i]))

\* app.invoke({"messages": [...]}): entry point `agent`
InitAgent ==
    /\ rt = [phase |-> "none"]
    /\ now = 0
    /\ cache = None
    /\ last = [phase |-> "none"]
    /\ \E script \in Phase4Scripts :
          chat = [phase |-> "agent", script |-> script, round |-> 0,
                  asked |-> <<>>, ran |-> <<>>, tool_msgs |-> 0]

\* agent_node, then should_continue: to `tools` when the response has tool calls
AgentNode ==
    /\ chat.phase = "agent"
    /\ chat' = IF chat.round < Len(chat.script)
               THEN [chat EXCEPT !.phase = "tools", !.round = @ + 1,
                                 !.asked = chat.script[chat.round + 1], !.ran = <<>>]
               ELSE [chat EXCEPT !.phase = "end"]
    /\ UNCHANGED <<rt, now, cache, last>>

\* tool_node, then the edge tools -> agent; an exception ends the run
ToolNode ==
    /\ chat.phase = "tools"
    /\ LET r == ToolNodeCalls(chat.asked, 1, <<>>) IN
       chat' = [chat EXCEPT !.phase = IF r.raised THEN "aborted" ELSE "agent",
                            !.ran = r.ran,
                            !.tool_msgs = IF r.raised THEN @ ELSE @ + Len(r.ran)]
    /\ UNCHANGED <<rt, now, cache, last>>

NextAgent ==
    \/ AgentNode
    \/ ToolNode

SpecAgent == InitAgent /\ [][NextAgent]_vars

(***************************************************************************)
(* llm_planner.py: decide_widget                                           *)
(***************************************************************************)
\* the tool names decide_widget is called with: the catalog and a stranger
WidgetTools == DOMAIN TOOL_SPEC \cup {"get_wallet_info"}

\* the values of a flag of a tool result: absent, True, False
Flags == {None, Some(JBool(TRUE)), Some(JBool(FALSE))}
\* a mapping with the keys of `fields` that are present
Present(fields) ==
    JObj([k \in { x \in DOMAIN fields : ~IsNone(fields[x]) } |-> Val(fields[k])])
MarketVal == JObj([symbol |-> JStr("jUSDT")])
\* the values of `markets` and of `market` in a tool result
MarketsVals == {None, Some(JList(<<>>)), Some(JList(<<MarketVal>>))}
MarketVals ==
    {None, Some(JObj(NoKeys)), Some(MarketVal),
     Some(JObj([address |-> JStr("T1")])), Some(JStr("jUSDT"))}

\* the tool results decide_widget is called with
WidgetResults ==
    {JNull, JStr("ok"), JList(<<MarketVal>>), JObj(NoKeys)}
    \cup { Present([ok |-> f, address |-> Some(JStr("TUserWallet"))]) : f \in Flags }
    \cup { Present([tronLinkPresent |-> f, tronWebInjected |-> g]) : f \in Flags, g \in Flags }
    \cup { Present([success |-> f, markets |-> m]) : f \in Flags, m \in MarketsVals }
    \cup { Present([success |-> f, market |-> m]) : f \in Flags, m \in MarketVals }
    \cup { Present([success |-> f, address |-> Some(JStr("TUserWallet"))]) : f \in Flags }

WidgetInfo(type, data) == [raised |-> FALSE, widget |-> [type |-> type, data |-> data]]
Idle == WidgetInfo("idle", JNull)
View(view, payload) == JObj([view |-> JStr(view), payload |-> payload])

\* decide_widget(tool_used, tool_result, session_id); session_id is not read.
\* `tool_result.get("market", {}).get("symbol", "unknown")` raises
\* AttributeError when the market is not a mapping
DecideWidget(tool_used, tool_result) ==
    IF ~Truthy(tool_result) \/ tool_result.kind # "obj" THEN Idle
    ELSE IF tool_used \in {"wallet_connect", "wallet_fetch_balance"}
            /\ Truthy(DictGet(tool_result, "ok"))
    THEN WidgetInfo("wallet", tool_result)
    ELSE IF tool_used = "wallet_check_tronlink"
    THEN IF Truthy(DictGet(tool_result, "tronLinkPresent"))
            /\ Truthy(DictGet(tool_result, "tronWebInjected"))
         THEN WidgetInfo("wallet", tool_result)
         ELSE Idle
    ELSE IF tool_used = "trustlender_list_markets"
    THEN IF Truthy(DictGet(tool_result, "success"))
            /\ Truthy(DictGet(tool_result, "markets"))
         THEN WidgetInfo("justlend", View("list", tool_result))
         ELSE Idle
    ELSE IF tool_used = "trustlender_market_detail"
    THEN IF Truthy(DictGet(tool_result, "success"))
            /\ Truthy(DictGet(tool_result, "market"))
         THEN IF DictGet(tool_result, "market").kind # "obj"
              THEN [raised |-> TRUE, exc |-> "AttributeError"]
              ELSE WidgetInfo("justlend", View("detail", tool_result))
         ELSE Idle
    ELSE IF tool_used = "trustlender_user_position"
    THEN IF Truthy(DictGet(tool_result, "success"))
         THEN WidgetInfo("justlend", View("user", tool_result))
         ELSE Idle
    ELSE Idle

\* one call of decide_widget on drawn arguments; memory_store is the module's
\* only mutable state (the sessions that have a memory)
InitWidget ==
    /\ rt = [phase |-> "none"]
    /\ now = 0
    /\ cache = None
    /\ last = [phase |-> "none"]
    /\ \E t \in WidgetTools, r \in WidgetResults, m \in SUBSET {"s1"} :
          chat = [phase |-> "widget?", tool_used |-> t, tool_result |-> r,
                  memory_store |-> m]

WidgetCall ==
    /\ chat.phase = "widget?"
    /\ chat' = [phase |-> "widget", tool_used |-> chat.tool_used,
                tool_result |-> chat.tool_result, memory_store |-> chat.memory_store,
                given |-> chat, out |-> DecideWidget(chat.tool_used, chat.tool_result)]
    /\ UNCHANGED <<rt, now, cache, last>>

NextWidget == WidgetCall

SpecWidget == InitWidget /\ [][NextWidget]_vars

(***************************************************************************)
(* main.py: the session store, the wallet callbacks and /api/chat          *)
(***************************************************************************)
\* requests the server handles in one run
MaxRequests == 3

SessionIds == {"s1", "s2"}
Timestamp == "<now>"

\* a value of `sessions`: the keys a handler may set, None for a key not set
Session(history, profile) ==
    [chat_history |-> history, profile |-> profile, wallet |-> None,
     wallet_details |-> None, last_wallet_error |-> None]
\* {"chat_history": [], "profile": {}}
NewSession == Session(<<>>, Some(<<>>))
\* {"chat_history": []}
NewSessionNoProfile == Session(<<>>, None)

\* a store that holds the session named last and no other
SetdefaultOnly(store, sid, default) ==
    IF sid \in DOMAIN store THEN (sid :> store[sid]) ELSE (sid :> default)

\* sessions.setdefault(sid, default), as the store it leaves
Setdefault(store, sid, default) ==
    IF sid \in DOMAIN store THEN store ELSE (sid :> default) @@ store

\* s.get("profile", {}), and s.setdefault("profile", {})
ProfileOf(s) == IF IsNone(s.profile) THEN <<>> ELSE Val(s.profile)

\* wallet_connected(evt)
WalletConnected(store, evt) ==
    LET s == Setdefault(store, evt.session_id, NewSession)[evt.session_id] IN
    [Setdefault(store, evt.session_id, NewSession) EXCEPT ![evt.session_id] =
        [s EXCEPT !.wallet = Some([address |-> evt.address, network |-> evt.network]),
                  !.profile = Some(DictUpdate(ProfileOf(s),
                                              [wallet_connected |-> "yes",
                                               wallet_address |-> evt.address])),
                  !.chat_history = Append(@, Msg("ai", "wallet connected", evt.address))]]

\* wallet_details(evt)
WalletDetails(store, evt) ==
    LET s == Setdefault(store, evt.session_id, NewSession)[evt.session_id] IN
    [Setdefault(store, evt.session_id, NewSession) EXCEPT ![evt.session_id] =
        [s EXCEPT !.wallet_details = Some([address |-> evt.address,
                                           trx_balance |-> evt.trx_balance]),
                  !.profile = Some(DictUpdate(ProfileOf(s),
                                              [trx_balance |-> evt.trx_balance,
                                               trx_balance_updated_at |-> Timestamp])),
                  !.chat_history = Append(@, Msg("ai", "wallet details", evt.address))]]

\* a wallet_error that notes the error in the profile
WalletErrorInProfile(store, evt) ==
    LET s == Setdefault(store, evt.session_id, NewSession)[evt.session_id] IN
    [Setdefault(store, evt.session_id, NewSession) EXCEPT ![evt.session_id] =
        [s EXCEPT !.last_wallet_error = Some([error |-> evt.error, ts |-> Timestamp]),
                  !.profile = Some(DictUpdate(ProfileOf(s), [wallet_error |-> evt.error])),
                  !.chat_history = Append(@, Msg("ai", "wallet error", evt.error))]]

\* a wallet_error that forgets the session it names
WalletErrorDrop(store, evt) ==
    [sid \in DOMAIN store \ {evt.session_id} |-> store[sid]]

\* wallet_error(evt)
WalletError(store, evt) ==
    LET s == Setdefault(store, evt.session_id, NewSessionNoProfile)[evt.session_id] IN
    [Setdefault(store, evt.session_id, NewSessionNoProfile) EXCEPT ![evt.session_id] =
        [s EXCEPT !.last_wallet_error = Some([error |-> evt.error, ts |-> Timestamp]),
                  !.chat_history = Append(@, Msg("ai", "wallet error", evt.error))]]

\* chat_history = state.messages[:-1], what node_assistant hands to the agent
\* with the latest human message
AgentHistory(messages) == SubSeq(messages, 1, Len(messages) - 1)

\* the text of an ai message that spells the marker and a list itself
MarkerText == "__FUNCTION_CALLS__:[{'type': 'trustlender_user_position'}]"

\* m["content"].startswith("__FUNCTION_CALLS__:")
StartsWithMarker(content) ==
    content.kind = "calls" \/ (content.kind = "text" /\ content.val = MarkerText)

\* eval(m["content"].split(":", 1)[1].strip())
EvalMarker(content) ==
    IF content.kind = "calls" THEN content.val ELSE <<"trustlender_user_position">>

NotFunctionCalls(m) == ~StartsWithMarker(m.content)

EmptyText == [kind |-> "text", val |-> ""]
IsEmptyText(content) == content.kind = "text" /\ content.val = ""

\* `for m in reversed(new_messages):` from the i-th message down
RECURSIVE ScanMessages(_, _, _, _)
ScanMessages(messages, i, reply, function_calls) ==
    IF i = 0 THEN [reply |-> reply, function_calls |-> function_calls]
    ELSE IF messages[i].role = "ai" /\ StartsWithMarker(messages[i].content)
    THEN ScanMessages(messages, i - 1, reply, EvalMarker(messages[i].content))
    ELSE IF messages[i].role = "ai" /\ IsEmptyText(reply)
    THEN ScanMessages(messages, i - 1, messages[i].content, function_calls)
    ELSE ScanMessages(messages, i - 1, reply, function_calls)

\* ChatResponse(reply=reply or "Okay.", function_calls=function_calls, ...)
ChatResponse(new_messages) ==
    LET r == ScanMessages(new_messages, Len(new_messages), EmptyText, <<>>) IN
    [reply |-> IF IsEmptyText(r.reply) THEN [kind |-> "text", val |-> "Okay."]
               ELSE r.reply,
     function_calls |-> r.function_calls]

\* chat_endpoint(msg) up to its `await asyncio.sleep`: x is what extract_facts
\* comes to and agent what tool_agent.invoke does; an exception of the agent
\* leaves graph.invoke and the handler
ChatEndpoint(store, msg, x, agent) ==
    LET s == Setdefault(store, msg.session_id, NewSession)[msg.session_id]
        e == NodeExtractResult(
                 [messages |-> Append(s.chat_history, Msg("human", "text", msg.message)),
                  profile |-> ProfileOf(s)], x)
    IN  IF agent.kind = "error"
        THEN [raised |-> TRUE, store |-> Setdefault(store, msg.session_id, NewSession),
              history |-> AgentHistory(e.messages), read |-> ProfileOf(s),
              input |-> LatestHuman(e.messages, Len(e.messages)),
              messages |-> e.messages, response |-> None]
        ELSE [raised |-> FALSE,
              store |-> [Setdefault(store, msg.session_id, NewSession)
                            EXCEPT ![msg.session_id] =
                                [s EXCEPT !.profile = Some(e.profile),
                                          !.chat_history =
                                              SelectSeq(NodeAssistantResult(e, agent.result),
                                                        NotFunctionCalls)]],
              history |-> AgentHistory(e.messages), read |-> ProfileOf(s),
              input |-> LatestHuman(e.messages, Len(e.messages)),
              messages |-> e.messages,
              response |-> Some(ChatResponse(NodeAssistantResult(e, agent.result)))]

\* what the callers and the LLMs supply
ChatMessages == { [session_id |-> sid, message |-> "call me a"] : sid \in SessionIds }
SessionFacts ==
    { EmptyFacts, ProfileFacts([a |-> "1"], <<>>), ProfileFacts(<<>>, <<"a">>) }
SessionAgents ==
    { [kind |-> "error"],
      [kind |-> "result",
       result |-> [output |-> "Here you go.", steps |-> <<"trustlender_list_markets">>]] }
WalletEvents ==
    { [session_id |-> sid, address |-> "TUserWallet", network |-> "mainnet",
       trx_balance |-> "12.5", error |-> "User rejected"] : sid \in SessionIds }

\* the process after start-up: `sessions = {}`, no request in flight
InitServer ==
    /\ rt = [phase |-> "none"]
    /\ now = 0
    /\ cache = None
    /\ last = [phase |-> "none"]
    /\ chat = [phase |-> "serving", sessions |-> <<>>, served |-> 0, inflight |-> {},
               step |-> [op |-> "start"]]

\* what is remembered of the handler that ran last
Step(op, sid, out) ==
    [op |-> op, session_id |-> sid, before |-> chat.sessions, out |-> out]

Serving == chat.phase = "serving" /\ chat.served < MaxRequests

\* POST /api/chat: the handler runs to its await in one piece
ChatRun ==
    /\ Serving
    /\ \E msg \in ChatMessages, pf \in SessionFacts, agent \in SessionAgents :
          LET r == ChatEndpoint(chat.sessions, msg,
                                ExtractFacts([kind |-> "facts", pf |-> pf],
                                             [kind |-> "error"]),
                                agent)
          IN chat' = [chat EXCEPT
                         !.sessions = r.store,
                         !.served = @ + 1,
                         !.inflight = IF r.raised THEN @
                                      ELSE @ \cup {[n |-> chat.served + 1,
                                                    session_id |-> msg.session_id,
                                                    wrote |-> ProfileOf(r.store[msg.session_id])]},
                         !.step = Step("chat", msg.session_id,
                                       [raised |-> r.raised, history |-> r.history,
                                        read |-> r.read, pf |-> pf])]
    /\ UNCHANGED <<rt, now, cache, last>>

\* the handler wakes from `await asyncio.sleep(...)` and returns its ChatResponse
ChatReturn ==
    /\ chat.phase = "serving"
    /\ \E r \in chat.inflight :
          chat' = [chat EXCEPT !.inflight = @ \ {r},
                               !.step = Step("chat returned", r.session_id, <<>>)]
    /\ UNCHANGED <<rt, now, cache, last>>

PostWalletConnected ==
    /\ Serving
    /\ \E evt \in WalletEvents :
          chat' = [chat EXCEPT !.sessions = WalletConnected(@, evt), !.served = @ + 1,
                               !.step = Step("wallet_connected", evt.session_id, <<>>)]
    /\ UNCHANGED <<rt, now, cache, last>>

PostWalletDetails ==
    /\ Serving
    /\ \E evt \in WalletEvents :
          chat' = [chat EXCEPT !.sessions = WalletDetails(@, evt), !.served = @ + 1,
                               !.step = Step("wallet_details", evt.session_id, <<>>)]
    /\ UNCHANGED <<rt, now, cache, last>>

PostWalletError ==
    /\ Serving
    /\ \E evt \in WalletEvents :
          chat' = [chat EXCEPT !.sessions = WalletError(@, evt), !.served = @ + 1,
                               !.step = Step("wallet_error", evt.session_id, <<>>)]
    /\ UNCHANGED <<rt, now, cache, last>>

NextServer ==
    \/ ChatRun
    \/ ChatReturn
    \/ PostWalletConnected
    \/ PostWalletDetails
    \/ PostWalletError

SpecServer == InitServer /\ [][NextServer]_vars

(***************************************************************************)
(* main.py: one session over many chat turns                               *)
(***************************************************************************)
\* chat turns of the session in one run
MaxTurns == 12

\* ConversationBufferWindowMemory(k=10) of llm_planner.py
MEMORY_K == 10

TalkFacts == { EmptyFacts, ProfileFacts([a |-> "1"], <<>>) }
TalkAgents ==
    { [kind |-> "result", result |-> [output |-> "Here you go.", steps |-> q]]
        : q \in {<<>>, <<"trustlender_list_markets">>} }

InitTalk ==
    /\ rt = [phase |-> "none"]
    /\ now = 0
    /\ cache = None
    /\ last = [phase |-> "none"]
    /\ chat = [phase |-> "talking", sessions |-> <<>>, turns |-> 0, history |-> <<>>]

\* one more POST /api/chat of session s1, handled to its end; `history` is the
\* chat_history node_assistant gave to the agent
TalkTurn ==
    /\ chat.phase = "talking"
    /\ chat.turns < MaxTurns
    /\ \E pf \in TalkFacts, agent \in TalkAgents :
          LET r == ChatEndpoint(chat.sessions,
                                [session_id |-> "s1", message |-> "call me a"],
                                ExtractFacts([kind |-> "facts", pf |-> pf],
                                             [kind |-> "error"]),
                                agent)
          IN chat' = [chat EXCEPT !.sessions = r.store, !.turns = @ + 1,
                                  !.history = r.history]
    /\ UNCHANGED <<rt, now, cache, last>>

NextTalk == TalkTurn

SpecTalk == InitTalk /\ [][NextTalk]_vars

(***************************************************************************)
(* main.py: what /api/chat answers                                         *)
(***************************************************************************)
\* requests of the session in one run
MaxReplies == 3

\* what tool_agent.invoke returns: the output may be empty, or spell the marker
ReplyAgents ==
    { [kind |-> "result", result |-> [output |-> o, steps |-> q]]
        : o \in {"Here you go.", "", MarkerText},
          q \in {<<>>, <<"trustlender_list_markets">>,
                 <<"search_docs", "get_wallet_info">>} }

InitReply ==
    /\ rt = [phase |-> "none"]
    /\ now = 0
    /\ cache = None
    /\ last = [phase |-> "none"]
    /\ chat = [phase |-> "replying", sessions |-> <<>>, served |-> 0,
               step |-> [op |-> "start"]]

Replying == chat.phase = "replying" /\ chat.served < MaxReplies

\* POST /api/chat of session s1, handled to its ChatResponse
ReplyChat ==
    /\ Replying
    /\ \E pf \in SessionFacts, agent \in ReplyAgents :
          LET r == ChatEndpoint(chat.sessions,
                                [session_id |-> "s1", message |-> "call me a"],
                                ExtractFacts([kind |-> "facts", pf |-> pf],
                                             [kind |-> "error"]),
                                agent)
          IN chat' = [chat EXCEPT
                         !.sessions = r.store, !.served = @ + 1,
                         !.step = [op |-> "chat", before |-> chat.sessions,
                                   input |-> r.input, chat_history |-> r.history,
                                   messages |-> r.messages, agent |-> agent.result,
                                   response |-> Val(r.response)]]
    /\ UNCHANGED <<rt, now, cache, last>>

\* POST /api/wallet/error of session s1
ReplyWalletError ==
    /\ Replying
    /\ \E evt \in { e \in WalletEvents : e.session_id = "s1" } :
          chat' = [chat EXCEPT !.sessions = WalletError(@, evt), !.served = @ + 1,
                               !.step = [op |-> "wallet_error", before |-> chat.sessions]]
    /\ UNCHANGED <<rt, now, cache, last>>

NextReply ==
    \/ ReplyChat
    \/ ReplyWalletError

SpecReply == InitReply /\ [][NextReply]_vars

(***************************************************************************)
(* state_manager.py: the agent state and its update functions              *)
(***************************************************************************)
\* calls of the update functions in one run
MaxUpdates == 4

\* needs_retry(state, max_retries=3)
MAX_RETRIES_DEFAULT == 3

\* create_initial_state(session_id)
CreateInitialState(session_id) ==
    [messages |-> <<>>, session_id |-> session_id,
     wallet_address |-> None, wallet_validated |-> FALSE, wallet_info |-> None,
     current_step |-> "idle", ui_state |-> "idle", needs_user_input |-> FALSE,
     pending_input_type |-> None,
     error_message |-> None, retry_count |-> 0, last_error_step |-> None,
     user_intent |-> None, operation_start_time |-> None, tools_used |-> <<>>,
     ui_updates |-> <<[type |-> "ui_state_change", state |-> "idle",
                       message |-> "SLATE is ready to help with your TRON wallet",
                       timestamp |-> Timestamp]>>,
     function_calls |-> <<>>]

\* update_ui_state(state, new_ui_state, message)
UpdateUiState(state, new_ui_state, message) ==
    [state EXCEPT !.ui_state = new_ui_state,
                  !.ui_updates = Append(@, [type |-> "ui_state_change",
                                            state |-> new_ui_state,
                                            message |-> message,
                                            timestamp |-> Timestamp])]

\* add_message(state, role, content)
AddMessage(state, role, content) ==
    [state EXCEPT !.messages = Append(@, [id |-> <<role, Len(state.messages)>>,
                                          role |-> role, content |-> content])]

\* update_wallet_info(state, address, validated, wallet_data): None leaves a field
UpdateWalletInfo(state, address, validated, wallet_data) ==
    [state EXCEPT !.wallet_address = IF IsNone(address) THEN @ ELSE address,
                  !.wallet_validated = IF IsNone(validated) THEN @ ELSE Val(validated),
                  !.wallet_info = IF IsNone(wallet_data) THEN @ ELSE wallet_data]

\* a set_error that records the error without counting it
SetErrorNoCount(state, error_message, step) ==
    UpdateUiState([state EXCEPT !.error_message = Some(error_message),
                                !.last_error_step = IF IsNone(step) THEN @ ELSE step],
                  "error", <<"Error", error_message>>)

\* set_error(state, error_message, step)
SetError(state, error_message, step) ==
    UpdateUiState([state EXCEPT !.error_message = Some(error_message),
                                !.retry_count = @ + 1,
                                !.last_error_step = IF IsNone(step) THEN @ ELSE step],
                  "error", <<"Error", error_message>>)

\* clear_error(state)
ClearError(state) ==
    [state EXCEPT !.error_message = None, !.retry_count = 0, !.last_error_step = None]

\* add_function_call(state, function_type, data)
AddFunctionCall(state, function_type, data) ==
    [state EXCEPT !.function_calls =
        Append(@, [id |-> Len(state.function_calls), type |-> function_type,
                   data |-> data, timestamp |-> Timestamp])]

\* track_tool_usage(state, tool_name)
TrackToolUsage(state, tool_name) ==
    IF \E i \in 1 .. Len(state.tools_used) : state.tools_used[i] = tool_name
    THEN state
    ELSE [state EXCEPT !.tools_used = Append(@, tool_name)]

\* is_in_error_state(state)
IsInErrorState(state) == ~IsNone(state.error_message)

\* needs_retry(state, max_retries)
NeedsRetry(state, max_retries) ==
    IsInErrorState(state) /\ state.retry_count < max_retries

\* advance_step(state, new_step)
AdvanceStep(state, new_step) ==
    [state EXCEPT !.current_step = new_step,
                  !.operation_start_time =
                      IF state.current_step = "idle" /\ new_step # "idle"
                      THEN Some(Timestamp) ELSE @]

\* a reset_to_idle that keeps the updates still queued
ResetToIdleKeepUpdates(state) ==
    UpdateUiState(ClearError([state EXCEPT !.current_step = "idle",
                                           !.needs_user_input = FALSE,
                                           !.pending_input_type = None,
                                           !.operation_start_time = None,
                                           !.tools_used = <<>>,
                                           !.function_calls = <<>>]),
                  "idle", "Ready for your next request")

\* reset_to_idle(state)
ResetToIdle(state) ==
    UpdateUiState(ClearError([state EXCEPT !.current_step = "idle",
                                           !.needs_user_input = FALSE,
                                           !.pending_input_type = None,
                                           !.operation_start_time = None,
                                           !.tools_used = <<>>,
                                           !.ui_updates = <<>>,
                                           !.function_calls = <<>>]),
                  "idle", "Ready for your next request")

\* clear_pending_updates(state)
ClearPendingUpdates(state) ==
    [state EXCEPT !.ui_updates = <<>>, !.function_calls = <<>>]

InitState ==
    /\ rt = [phase |-> "none"]
    /\ now = 0
    /\ cache = None
    /\ last = [phase |-> "none"]
    /\ \E sid \in SessionIds :
          chat = [phase |-> "agent state", state |-> CreateInitialState(sid),
                  updates |-> 0, streak |-> 0, step |-> [op |-> "create_initial_state"]]

\* the state after one more call; streak counts the set_error calls since the
\* last clear_error or reset_to_idle
Updated(op, state, streak) ==
    [chat EXCEPT !.state = state, !.updates = @ + 1, !.streak = streak,
                 !.step = [op |-> op, before |-> chat.state]]

Updating == chat.phase = "agent state" /\ chat.updates < MaxUpdates

CallUpdateUiState ==
    /\ Updating
    /\ chat' = Updated("update_ui_state",
                       UpdateUiState(chat.state, "processing", "Working on it"),
                       chat.streak)
    /\ UNCHANGED <<rt, now, cache, last>>

CallAddMessage ==
    /\ Updating
    /\ chat' = Updated("add_message", AddMessage(chat.state, "user", "hi"), chat.streak)
    /\ UNCHANGED <<rt, now, cache, last>>

CallUpdateWalletInfo ==
    /\ Updating
    /\ \E args \in { <<Some("TUserWallet"), Some(TRUE), None>>,
                     <<None, None, Some("12.5 TRX")>> } :
          chat' = Updated("update_wallet_info",
                          UpdateWalletInfo(chat.state, args[1], args[2], args[3]),
                          chat.streak)
    /\ UNCHANGED <<rt, now, cache, last>>

CallSetError ==
    /\ Updating
    /\ \E step \in {None, Some("fetching")} :
          chat' = Updated("set_error", SetError(chat.state, "timeout", step),
                          chat.streak + 1)
    /\ UNCHANGED <<rt, now, cache, last>>

CallClearError ==
    /\ Updating
    /\ chat' = Updated("clear_error", ClearError(chat.state), 0)
    /\ UNCHANGED <<rt, now, cache, last>>

CallAddFunctionCall ==
    /\ Updating
    /\ chat' = Updated("add_function_call",
                       AddFunctionCall(chat.state, "wallet_balance", "12.5 TRX"),
                       chat.streak)
    /\ UNCHANGED <<rt, now, cache, last>>

CallTrackToolUsage ==
    /\ Updating
    /\ chat' = Updated("track_tool_usage",
                       TrackToolUsage(chat.state, "wallet_fetch_balance"), chat.streak)
    /\ UNCHANGED <<rt, now, cache, last>>

CallAdvanceStep ==
    /\ Updating
    /\ \E new_step \in {"fetching", "idle"} :
          chat' = Updated("advance_step", AdvanceStep(chat.state, new_step), chat.streak)
    /\ UNCHANGED <<rt, now, cache, last>>

CallResetToIdle ==
    /\ Updating
    /\ chat' = Updated("reset_to_idle", ResetToIdle(chat.state), 0)
    /\ UNCHANGED <<rt, now, cache, last>>

CallClearPendingUpdates ==
    /\ Updating
    /\ chat' = Updated("clear_pending_updates", ClearPendingUpdates(chat.state),
                       chat.streak)
    /\ UNCHANGED <<rt, now, cache, last>>

NextState ==
    \/ CallUpdateUiState
    \/ CallAddMessage
    \/ CallUpdateWalletInfo
    \/ CallSetError
    \/ CallClearError
    \/ CallAddFunctionCall
    \/ CallTrackToolUsage
    \/ CallAdvanceStep
    \/ CallResetToIdle
    \/ CallClearPendingUpdates

SpecState == InitState /\ [][NextState]_vars

(***************************************************************************)
(* Claims about _with_retries (checked under SpecRetry)                    *)
(***************************************************************************)
RetryDone == rt.phase = "done"
RtMax == EffMax(rt.inp.args)
RtBase == EffBase(rt.inp.args)
\* the invocations of fn that would succeed, among the first max_attempts
RtOk == { i \in 1 .. RtMax : ~rt.inp.fails[i] }
RtFirstOk == CHOOSE i \in RtOk : \A k \in RtOk : i <= k

\* C1: fn is invoked at most max_attempts times; the first successful
\* invocation's result is returned with no further invocation; if all
\* max_attempts invocations raise, the exception of the last one is re-raised.
C1_RetryContract ==
    RetryDone =>
        /\ rt.out.calls <= RtMax
        /\ RtOk # {} => /\ rt.out.status = "returned"
                        /\ rt.out.result = RtFirstOk
                        /\ rt.out.calls = RtFirstOk
        /\ RtOk = {} => /\ rt.out.status = "raised"
                        /\ rt.out.result = RtMax
                        /\ rt.out.calls = RtMax

C1_Witness ==
    /\ RetryDone
    /\ RtMax >= 2
    /\ RtOk = {}
    /\ rt.out.status = "raised"

\* the call fails max_attempts - 1 times and then succeeds
FailsThenSucceeds ==
    /\ RetryDone
    /\ RtOk = {RtMax}

\* C2 as stated: exactly max_attempts - 1 sleeps, the k-th at least
\* base_delay_ms * 2^(k-1) and strictly less than 1.25 * base_delay_ms * 2^(k-1).
C2_Original ==
    FailsThenSucceeds =>
        /\ rt.out.status = "returned"
        /\ rt.out.result = RtMax
        /\ Len(rt.out.sleeps) = RtMax - 1
        /\ \A k \in 1 .. Len(rt.out.sleeps) :
              /\ rt.out.sleeps[k] >= RtBase * Pow2(k - 1)
              /\ 4 * rt.out.sleeps[k] < 5 * RtBase * Pow2(k - 1)

\* C2 amended: as C2, with the k-th sleep at most (not strictly less than)
\* 1.25 * base_delay_ms * 2^(k-1); and in every call, failed or not, the
\* number of sleeps is one less than the number of invocations, so no sleep
\* follows the final attempt.
C2_RetrySleeps ==
    /\ FailsThenSucceeds =>
        /\ rt.out.status = "returned"
        /\ rt.out.result = RtMax
        /\ Len(rt.out.sleeps) = RtMax - 1
        /\ \A k \in 1 .. Len(rt.out.sleeps) :
              /\ rt.out.sleeps[k] >= RtBase * Pow2(k - 1)
              /\ 4 * rt.out.sleeps[k] <= 5 * RtBase * Pow2(k - 1)
    /\ RetryDone => Len(rt.out.sleeps) = rt.out.calls - 1

C2_Witness ==
    /\ FailsThenSucceeds
    /\ RtMax >= 3
    /\ RtBase > 0
    /\ rt.out.sleeps[2] > RtBase * 2
    /\ 4 * rt.out.sleeps[2] < 5 * RtBase * 2

(***************************************************************************)
(* Claims about the tools (checked under Spec and SpecTools)               *)
(***************************************************************************)
CallDone == last.phase = "done"
IsMainList == CallDone /\ last.op = "main.list_markets"
IsOpsList == CallDone /\ last.op = "ops.list_markets"
IsList == IsMainList \/ IsOpsList
IsDetail == CallDone /\ last.op \in {"main.market_detail", "ops.market_detail"}
\* the payload reports a failure
Failure(ret) == "error" \in DOMAIN ret
\* the limit the last list_markets call ran with
LimitOf ==
    IF last.op = "main.list_markets" THEN MainDefaultLimit(last.arg)
    ELSE OpsDefaultLimit(last.arg)
\* the slot c holds a payload that is within its TTL at time t
FreshEntry(c, t) == c # <<>> /\ t - c[1] <= JL_CACHE_TTL_SEC
Addresses(markets) == [i \in 1 .. Len(markets) |-> markets[i].address]
Without(seq, set) == SelectSeq(seq, LAMBDA a : a \notin set)

C4_Original ==
    [][ ( /\ IsMainList
          /\ last.arg = Some(6)
          /\ ~last.raised
          /\ ~Failure(last.ret)
          /\ last' # last
          /\ last'.op = "main.list_markets"
          /\ last'.arg = Some(6)
          /\ last'.at - last.at <= JL_CACHE_TTL_SEC )
        => ( /\ last'.hit
             /\ last'.calls = 0
             /\ last'.ret = last.ret ) ]_vars

\* C5: _cache_get returns the stored payload only while now - stored_timestamp
\* <= TTL and reports empty when nothing was stored or the payload is older, so
\* a list_markets response served from the cache comes from an entry within
\* its TTL.
C5_CacheTtl ==
    /\ CacheGet(cache, now) = IF FreshEntry(cache, now) THEN Some(cache[2]) ELSE None
    /\ (IsMainList /\ last.hit) =>
          /\ FreshEntry(last.pre, last.at)
          /\ last.ret.markets = PySlice(last.pre[2].markets, LimitOf)
    /\ (IsMainList /\ ~FreshEntry(last.pre, last.at)) => ~last.hit

\* a response served from an entry exactly TTL seconds old
C5_Witness ==
    /\ IsMainList
    /\ last.hit
    /\ last.at - last.pre[1] = JL_CACHE_TTL_SEC

\* C6: when the address list was fetched and the reads of exactly one of the N
\* markets processed raise while the others succeed, list_markets returns a
\* non-error payload with count = N - 1 holding the other markets in list
\* order, and no exception reaches the caller.
C6_PartialFailure ==
    (IsList /\ ~last.hit /\ Cardinality(last.failed) = 1) =>
        /\ ~last.raised
        /\ ~Failure(last.ret)
        /\ last.ret.count = Len(last.seen) - 1
        /\ Addresses(last.ret.markets) = Without(last.seen, last.failed)

C6_Witness ==
    /\ IsOpsList
    /\ Len(last.seen) = JUSTLEND_MAX_MARKETS
    /\ last.failed = {2}
    /\ ~Failure(last.ret)
    /\ last.ret.count = JUSTLEND_MAX_MARKETS - 1

\* C7: every successful list_markets(limit) with limit >= 1, fresh fetch or
\* cache hit, returns len(markets) = count and count <= limit.
C7_CountWithinLimit ==
    (IsList /\ ~last.raised /\ ~Failure(last.ret) /\ LimitOf >= 1) =>
        /\ Len(last.ret.markets) = last.ret.count
        /\ last.ret.count <= LimitOf

\* a cache hit that hands out fewer markets than the slot holds
C7_Witness ==
    /\ IsMainList
    /\ last.hit
    /\ last.arg = Some(1)
    /\ last.pre[2].count > 1
    /\ last.ret.count = 1

\* the markets a payload lists, none when it reports a failure
MarketsOf(ret) == IF Failure(ret) THEN <<>> ELSE ret.markets
\* the same call made without a limit
DefaultCall ==
    IF last.op = "main.list_markets"
    THEN TrustlenderListMarkets(None, last.plan, last.pre, last.at)
    ELSE OpsListMarkets(None, last.plan)

\* C8 as stated: for every limit <= 0, list_markets (main.py and
\* justlend_ops.py) behaves exactly like a call with the configured default
\* limit, whether or not a fresh cache entry exists.
C8_Original ==
    (IsList /\ ~IsNone(last.arg) /\ Val(last.arg) <= 0) =>
        /\ Failure(last.ret) = Failure(DefaultCall.ret)
        /\ MarketsOf(last.ret) = MarketsOf(DefaultCall.ret)
        /\ last.hit = DefaultCall.hit

\* a top-level read (client and Comptroller set-up, getAllMarkets) is down
TopLevelDown ==
    /\ last.plan.fn \in {"comptroller", "getAllMarkets"}
    /\ last.plan.bad = {0}
Structured(ret) ==
    /\ {"success", "error", "error_type"} \subseteq DOMAIN ret
    /\ ret.success = FALSE

\* C9 as stated: list_markets, market_detail and user_position never raise to
\* their caller, and a top-level failure is returned as a payload carrying
\* success = false together with error and error_type.
C9_Original ==
    CallDone =>
        /\ ~last.raised
        /\ TopLevelDown => Structured(last.ret)

\* no market's symbol equals the requested one, case-insensitively
NoMatch(symbol) ==
    \A i \in 1 .. Len(AllMarkets) : Lower(Symbol(AllMarkets[i])) # Lower(symbol)

\* C10 as stated: market_detail(symbol), when every symbol can be read and none
\* matches, inspects every market and returns a payload with success = false
\* and error_type = "MarketNotFound".
C10_Original ==
    (IsDetail /\ last.plan.bad = {} /\ last.plan.pre = 0 /\ NoMatch(last.arg)) =>
        /\ ~last.raised
        /\ last.seen = AllMarkets
        /\ {"success", "error_type"} \subseteq DOMAIN last.ret
        /\ last.ret.success = FALSE
        /\ last.ret.error_type = "MarketNotFound"

(***************************************************************************)
(* Claims about plan_with_llm (checked under SpecPlan)                     *)
(***************************************************************************)
Planned == chat.phase = "planned"
\* the content is the text of a JSON value
ValidJson(resp) ==
    /\ resp.kind = "content"
    /\ ~(~resp.open /\ resp.close)
    /\ resp.body # NotJson
\* a list, or a mapping whose function_calls is a list
IsCallList(v) ==
    \/ v.kind = "list"
    \/ /\ v.kind = "obj"
       /\ "function_calls" \in DOMAIN v.val
       /\ v.val["function_calls"].kind = "list"
\* the items the planner answered with
CallList(v) == IF v.kind = "list" THEN v.val ELSE v.val["function_calls"].val
\* an item that is a mapping whose type names a tool of the catalog
ValidItem(item) ==
    /\ item.kind = "obj"
    /\ "type" \in DOMAIN item.val
    /\ item.val["type"].kind = "str"
    /\ item.val["type"].val \in DOMAIN TOOL_SPEC
TypesOf(items) == [i \in 1 .. Len(items) |-> items[i].val["type"].val]
PlanTypes(plan) == [i \in 1 .. Len(plan) |-> plan[i].type]

\* C11 as stated: for every planner response that parses as a list, the items
\* whose type is not in TOOL_SPEC are dropped and every valid item is kept, in
\* the original order, whatever the invalid items' types are.
C11_Original ==
    (Planned /\ ValidJson(chat.resp) /\ IsCallList(chat.resp.body)) =>
        PlanTypes(chat.plan) =
            TypesOf(SelectSeq(CallList(chat.resp.body), ValidItem))

\* args that are a mapping of declared arguments with values of the declared type
WellFormedArgs(type, args) ==
    /\ args.kind = "obj"
    /\ DOMAIN args.val \subseteq DOMAIN TOOL_SPEC[type]
    /\ \A k \in DOMAIN args.val :
          args.val[k].kind = (IF TOOL_SPEC[type][k] = "int" THEN "num" ELSE "str")

\* C12 as stated: an item whose tool is in the catalog but whose args are
\* malformed (no mapping, or not matching the tool's schema) is dropped by
\* plan_with_llm, so every call of the plan has well-formed args.
C12_Original ==
    Planned =>
        \A i \in 1 .. Len(chat.plan) :
            WellFormedArgs(chat.plan[i].type, chat.plan[i].args)

\* C13: when the LLM call fails, its output is no valid JSON, or the parsed
\* value is neither a list nor a mapping with a function_calls list,
\* plan_with_llm returns the empty list.
C13_EmptyPlanOnFailure ==
    (Planned /\ ~(ValidJson(chat.resp) /\ IsCallList(chat.resp.body))) =>
        chat.plan = <<>>

\* a mapping whose function_calls is no list
C13_Witness ==
    /\ Planned
    /\ ValidJson(chat.resp)
    /\ chat.resp.body = JObj([function_calls |-> JStr("none")])
    /\ chat.plan = <<>>

(***************************************************************************)
(* Claims about the chat turn of backend/main.py (checked under SpecTurn)  *)
(***************************************************************************)
\* node_extract has run and found a human message to extract from
Extracted == chat.phase \in {"assistant", "end", "aborted"} /\ chat.extracted
\* the ProfileFacts the turn's extraction comes to when nothing fails
GivenFacts ==
    IF chat.inp.structured.kind = "facts" THEN chat.inp.structured.pf
    ELSE chat.inp.raw.pf
ExtractionWorked ==
    \/ chat.inp.structured.kind = "facts"
    \/ chat.inp.raw.kind = "text" /\ chat.inp.raw.span = "object"
Forgotten(pf) == { pf.forget[i] : i \in 1 .. Len(pf.forget) }

\* C14: the new profile is the prior profile with every key of `forget`
\* removed first and every entry of `facts` merged in afterwards: a fact
\* overwrites a prior value, a key both forgotten and stated ends up with the
\* fact's value, forgetting an absent key changes nothing.
C14_ProfileUpdateRule ==
    (Extracted /\ ExtractionWorked) =>
        /\ chat.phase # "aborted"
        /\ DOMAIN chat.profile =
              (DOMAIN chat.prior \ Forgotten(GivenFacts)) \cup DOMAIN GivenFacts.facts
        /\ \A k \in DOMAIN chat.profile :
              chat.profile[k] = IF k \in DOMAIN GivenFacts.facts
                                THEN GivenFacts.facts[k]
                                ELSE chat.prior[k]

\* profile {a: "1"}, facts {a: "2"}, forget ["a"]: a stays, with the fact's value
C14_Witness ==
    /\ Extracted
    /\ ExtractionWorked
    /\ chat.prior = [a |-> "1"]
    /\ GivenFacts = ProfileFacts([a |-> "2"], <<"a">>)
    /\ chat.profile = [a |-> "2"]

\* C15: extract_facts never raises: when the structured call fails it falls
\* back to the raw JSON between the outermost braces, and when that fails too
\* (provider error, no braces, invalid JSON, wrong field types) the result is
\* empty, the profile stays as it was and the turn goes on to the assistant.
C15_ExtractionNeverAborts ==
    /\ chat.phase # "aborted"
    /\ (Extracted /\ ~ExtractionWorked) =>
          /\ chat.profile = chat.prior
          /\ chat.phase \in {"assistant", "end"}
    /\ (Extracted /\ chat.inp.structured.kind = "error" /\ ExtractionWorked) =>
          chat.profile = MergeProfile(chat.prior, chat.inp.raw.pf)

\* both calls fail and the assistant still answers
C15_Witness ==
    /\ chat.phase = "end"
    /\ chat.extracted
    /\ chat.inp.structured.kind = "error"
    /\ chat.inp.raw.kind = "error"
    /\ chat.prior = [a |-> "1"]
    /\ chat.profile = chat.prior
    /\ chat.agentCalls = 1

(***************************************************************************)
(* Claims about the workflow of TEST/app.py (checked under SpecFlow)       *)
(***************************************************************************)
FlowEnded == chat.phase = "end"
ByExecutor(entry) == entry.who = "executor"
HasHandler(tc) == tc.name \in ALL_TOOLS
\* the trace the executor's calls are to leave: call, result, call, result, ...
PairedTrace(calls) ==
    [i \in 1 .. 2 * Len(calls) |->
        TraceEntry(IF i % 2 = 1 THEN "tool_call" ELSE "tool_result", "executor",
                   calls[(i + 1) \div 2].name)]
\* where the executor's LLM was asked, in the log
ExecutorAsked == CHOOSE i \in 1 .. Len(chat.events) : chat.events[i] = Event("llm", "executor")
EventsAfterExecutor == SubSeq(chat.events, ExecutorAsked + 1, Len(chat.events))
Invocations(calls) == [i \in 1 .. Len(calls) |-> Event("invoke", calls[i].name)]

\* C16: the tool calls of one response are executed one after another in the
\* order returned, each leaving a tool_call entry immediately followed by its
\* tool_result entry, and the summarizer is invoked exactly once, after the
\* last result; with no tool call, no tool and no summarizer is invoked and
\* the LLM's text is the final reply.
C16_ExecutorOrdering ==
    FlowEnded =>
        /\ SelectSeq(chat.trace, ByExecutor) = PairedTrace(chat.inp.executor)
        /\ chat.inp.executor # <<>> =>
              /\ EventsAfterExecutor =
                    Append(Invocations(SelectSeq(chat.inp.executor, HasHandler)),
                           Event("llm", "summarizer"))
              /\ chat.messages[Len(chat.messages)].content = <<"text", "summary">>
        /\ chat.inp.executor = <<>> =>
              /\ EventsAfterExecutor = <<>>
              /\ chat.messages[Len(chat.messages)].content = <<"text", "executor">>

\* two tools run in the order returned, then the one summary
C16_Witness ==
    /\ FlowEnded
    /\ chat.inp.executor = <<ToolCall("fx_rate", FALSE), ToolCall("get_weather", FALSE)>>
    /\ EventsAfterExecutor =
          <<Event("invoke", "fx_rate"), Event("invoke", "get_weather"),
            Event("llm", "summarizer")>>

\* the times an LLM with tools bound was asked during the turn
ToolBoundAsks ==
    { i \in 1 .. Len(chat.events) :
        chat.events[i] \in {Event("llm", "planner"), Event("llm", "executor")} }

\* C17 as stated: within one turn the tool-bound LLM is asked for tool calls
\* at most once, and no tool result is fed back to obtain a second round of
\* tool calls.
C17_Original ==
    /\ Cardinality(ToolBoundAsks) <= 1
    /\ \A i \in ToolBoundAsks, k \in 1 .. Len(chat.events) :
          chat.events[k].ev = "invoke" => i < k

(***************************************************************************)
(* Claims about the graph of TEST/phase4.py (checked under SpecAgent)      *)
(***************************************************************************)
Bound(name) == name \in Phase4Tools
\* tool_node has dealt with a response
ToolsDone == chat.round >= 1 /\ chat.phase # "tools"

\* C18 as stated: a tool name that is not in the catalog is dropped before
\* execution: no handler is invoked for it, the turn is not aborted by it, and
\* the other tool calls of the response are still executed.
C18_Original ==
    ToolsDone =>
        /\ chat.phase # "aborted"
        /\ chat.ran = SelectSeq(chat.asked, Bound)

(***************************************************************************)
(* Claims about the throttle and user_position (checked under SpecTools)   *)
(***************************************************************************)
\* C19 as stated: a tool that iterates over N markets sleeps the per-market
\* delay before every market but the first, N - 1 times in all (the retry
\* sleeps of _with_retries are counted apart, in last.sleeps).
C19_Original ==
    (CallDone /\ Len(last.seen) >= 1) =>
        last.throttles = Len(last.seen) - 1

IsPosition == CallDone /\ last.op \in {"main.user_position", "ops.user_position"}
\* justlend_ops retries its reads, main.py's user_position reads once
Retried == last.op = "ops.user_position"
Attempts == IF Retried THEN JUSTLEND_MAX_RETRIES ELSE 1
\* the read of fn on market a fails for good
ReadFails(fn, a, attempts) ==
    /\ last.plan.fn = fn
    /\ (a \in last.plan.bad \/ last.plan.pre >= attempts)
\* the markets of which one of the reads inside the loop's try fails
Skipped ==
    { a \in 1 .. NumMarkets :
        \/ ReadFails("get_contract", a, 1)
        \/ ReadFails("symbol", a, Attempts)
        \/ ReadFails("getAccountSnapshot", a, Attempts) }
TopFails == ReadFails("comptroller", 0, 1) \/ ReadFails("getAllMarkets", 0, Attempts)
LiquidityFails == ReadFails("getAccountLiquidity", 0, Attempts)
\* the remote invocations the aggregate read takes
LiquidityCalls ==
    IF last.plan.fn # "getAccountLiquidity" THEN 1
    ELSE IF LiquidityFails THEN Attempts
    ELSE last.plan.pre + 1
\* every read of the call answers at its first attempt
NoTrouble == last.plan.bad = {} /\ last.plan.pre = 0
PositionOf(a) == Entry("position", a)
Expected(addrs) == [i \in 1 .. Len(addrs) |-> PositionOf(addrs[i])]

\* C20: user_position returns, in the order of the market list, one entry per
\* market whose reads succeeded, a market whose reads fail being skipped without
\* failing the call; the aggregate liquidity is read once, after the loop over
\* all the markets; when that read fails the call returns a failure payload
\* although the loop has collected positions.
C20_UserPosition ==
    (IsPosition /\ ~TopFails) =>
        /\ ~last.raised
        /\ last.seen = AllMarkets
        /\ last.failed = Skipped
        /\ Failure(last.ret) <=> LiquidityFails
        /\ ~LiquidityFails =>
              /\ last.ret.positions = Expected(Without(AllMarkets, Skipped))
              /\ last.ret.liquidity_mantissa = Liquidity
              /\ last.ret.shortfall_mantissa = Shortfall
        /\ (last.plan.fn = "getAccountLiquidity" \/ NoTrouble) =>
              last.calls = 2 + 3 * NumMarkets + LiquidityCalls

\* a call that skipped a market and returned the other positions, or one whose
\* aggregate read failed after the loop went over every market
C20_Witness ==
    /\ IsPosition
    /\ ~TopFails
    /\ \/ /\ Skipped # {}
          /\ ~Failure(last.ret)
          /\ Len(last.ret.positions) = NumMarkets - Cardinality(Skipped)
       \/ /\ LiquidityFails
          /\ Failure(last.ret)
          /\ last.seen = AllMarkets

(***************************************************************************)
(* Claims about decide_widget (checked under SpecWidget)                   *)
(***************************************************************************)
Decided == chat.phase = "widget"
WidgetTypes == {"idle", "wallet", "justlend-list", "justlend-detail", "justlend-user"}

\* C21 as stated: for every tool name and tool result decide_widget returns a
\* mapping {type, data} whose type is one of idle, wallet, justlend-list,
\* justlend-detail, justlend-user, and it leaves its arguments and the module's
\* state as they were.
C21_Original ==
    Decided =>
        /\ ~chat.out.raised
        /\ DOMAIN chat.out.widget = {"type", "data"}
        /\ chat.out.widget.type \in WidgetTypes
        /\ chat.tool_used = chat.given.tool_used
        /\ chat.tool_result = chat.given.tool_result
        /\ chat.memory_store = chat.given.memory_store

Flag(key) == Truthy(DictGet(chat.tool_result, key))
\* the tool result lacks the success markers its tool is expected to set
LacksMarkers ==
    \/ ~Truthy(chat.tool_result)
    \/ chat.tool_result.kind # "obj"
    \/ chat.tool_used \notin DOMAIN TOOL_SPEC
    \/ chat.tool_used \in {"wallet_connect", "wallet_fetch_balance"} /\ ~Flag("ok")
    \/ chat.tool_used = "wallet_check_tronlink"
          /\ ~(Flag("tronLinkPresent") /\ Flag("tronWebInjected"))
    \/ chat.tool_used = "trustlender_list_markets" /\ ~(Flag("success") /\ Flag("markets"))
    \/ chat.tool_used = "trustlender_market_detail" /\ ~(Flag("success") /\ Flag("market"))
    \/ chat.tool_used = "trustlender_user_position" /\ ~Flag("success")

\* C22 as stated: decide_widget returns type idle with data None when the tool
\* result lacks the expected success markers, and a type other than idle in
\* every other case.
C22_Original ==
    Decided =>
        IF LacksMarkers
        THEN chat.out = Idle
        ELSE ~chat.out.raised /\ chat.out.widget.type # "idle"

(***************************************************************************)
(* Claims about the session store (checked under SpecServer)               *)
(***************************************************************************)
Handled == chat.phase = "serving" /\ chat.step.op # "start"
WalletOps == {"wallet_connected", "wallet_details", "wallet_error"}
\* the session the last handler named, before and after it ran
Sid == chat.step.session_id
Existed == Sid \in DOMAIN chat.step.before
\* the profile of a session of a store, empty when there is none
ProfileIn(store, sid) == IF sid \in DOMAIN store THEN ProfileOf(store[sid]) ELSE <<>>
ProfileChanged(sid) == ProfileIn(chat.sessions, sid) # ProfileIn(chat.step.before, sid)

\* C23 as stated: each of wallet_connected, wallet_details and wallet_error
\* writes to the profile of the session it names, with no chat turn needed,
\* and creates the session when it does not exist.
C23_Original ==
    (Handled /\ chat.step.op \in WalletOps) =>
        /\ Sid \in DOMAIN chat.sessions
        /\ ~Existed => ProfileIn(chat.sessions, Sid) # <<>>

\* C24 as stated: a profile changes only in the extract step of a chat turn of
\* its session; every other operation leaves every profile as it was.
C24_Original ==
    Handled =>
        \A sid \in SessionIds :
            ProfileChanged(sid) => (chat.step.op = "chat" /\ Sid = sid)

\* C24, amended: a profile changes only in a request that names its session:
\* in the extract step of a chat turn, which forgets the keys to forget and
\* then merges the facts, or in wallet_connected or wallet_details, which set
\* their own keys; wallet_error, a chat turn that fails and a request that
\* names another session leave it as it was.
C24_ProfileWriters ==
    Handled =>
        \A sid \in SessionIds :
            ProfileChanged(sid) =>
                /\ Sid = sid
                /\ \/ /\ chat.step.op = "chat"
                      /\ ~chat.step.out.raised
                      /\ ProfileIn(chat.sessions, sid) =
                            MergeProfile(ProfileIn(chat.step.before, sid), chat.step.out.pf)
                   \/ /\ chat.step.op = "wallet_connected"
                      /\ \A k \in DOMAIN ProfileIn(chat.step.before, sid) :
                            k \notin {"wallet_connected", "wallet_address"} =>
                                ProfileIn(chat.sessions, sid)[k] = ProfileIn(chat.step.before, sid)[k]
                   \/ /\ chat.step.op = "wallet_details"
                      /\ \A k \in DOMAIN ProfileIn(chat.step.before, sid) :
                            k \notin {"trx_balance", "trx_balance_updated_at"} =>
                                ProfileIn(chat.sessions, sid)[k] = ProfileIn(chat.step.before, sid)[k]

\* a wallet_error and a failed chat turn that left a non-empty profile alone,
\* seen after an extract step has changed it
C24_Witness ==
    /\ Handled
    /\ chat.step.op \in {"wallet_error", "chat"}
    /\ chat.step.op = "chat" => chat.step.out.raised
    /\ Existed
    /\ ProfileIn(chat.step.before, Sid) # <<>>
    /\ "a" \in DOMAIN ProfileIn(chat.sessions, Sid)
    /\ ~ProfileChanged(Sid)

Created == DOMAIN chat.sessions \ DOMAIN chat.step.before

\* C28: no session exists before a request names it; a chat message or a
\* wallet callback creates the session it names, and no other, from an empty
\* history and an empty profile; a session once created is never removed.
C28_SessionLifecycle ==
    /\ (chat.phase = "serving" /\ chat.served = 0) => chat.sessions = <<>>
    /\ Handled =>
        /\ DOMAIN chat.step.before \subseteq DOMAIN chat.sessions
        /\ Created \subseteq {Sid}
        /\ chat.step.op = "chat returned" => Created = {}
        /\ chat.step.op \in WalletOps \cup {"chat"} => Sid \in DOMAIN chat.sessions
        /\ Created # {} =>
              LET s == chat.sessions[Sid] IN
              CASE chat.step.op = "chat" /\ chat.step.out.raised ->
                      s.chat_history = <<>> /\ ProfileOf(s) = <<>>
                [] chat.step.op = "chat" ->
                      /\ chat.step.out.read = <<>>
                      /\ s.chat_history[1].role = "human"
                      /\ ProfileOf(s) = chat.step.out.pf.facts
                [] chat.step.op = "wallet_connected" ->
                      /\ Len(s.chat_history) = 1
                      /\ DOMAIN ProfileOf(s) = {"wallet_connected", "wallet_address"}
                [] chat.step.op = "wallet_details" ->
                      /\ Len(s.chat_history) = 1
                      /\ DOMAIN ProfileOf(s) = {"trx_balance", "trx_balance_updated_at"}
                [] OTHER ->
                      Len(s.chat_history) = 1 /\ ProfileOf(s) = <<>>

\* a second session is created by a wallet callback while the first, created
\* by a chat message, is still there
C28_Witness ==
    /\ Handled
    /\ chat.step.op \in WalletOps
    /\ Created = {Sid}
    /\ DOMAIN chat.sessions = SessionIds
    /\ chat.step.before # <<>>

(***************************************************************************)
(* Claims about the conversation memory (checked under SpecTalk)           *)
(***************************************************************************)
IsHuman(m) == m.role = "human"
\* the exchanges of a history: one per message of the user
Exchanges(history) == Len(SelectSeq(history, IsHuman))

\* C26 as stated: after any number of turns the conversation history placed
\* into an LLM prompt holds at most the last K = 10 exchanges of the session.
C26_Original ==
    chat.phase = "talking" => Exchanges(chat.history) <= MEMORY_K

(***************************************************************************)
(* Claims about a batch with a failed market (checked under SpecTools)     *)
(***************************************************************************)
\* C27 as stated: when one market's reads fail inside list_markets, the market
\* is skipped and the batch goes on; the result has a shorter `markets` array
\* and an unchanged `count`, equal to the number of markets attempted.
C27_Original ==
    (IsList /\ ~last.raised /\ ~Failure(last.ret) /\ last.failed # {}) =>
        /\ Len(last.ret.markets) = Len(last.seen) - Cardinality(last.failed)
        /\ last.ret.count = Len(last.seen)

\* C27, amended: when markets' reads fail inside list_markets the failed
\* markets are skipped and the batch goes on; the result has a shorter
\* `markets` array, holding the other markets in list order, and a `count`
\* that shrinks with it: count is the number of markets returned.
C27_CountFollowsMarkets ==
    (IsList /\ ~last.hit /\ last.failed # {}) =>
        /\ ~last.raised
        /\ ~Failure(last.ret)
        /\ Len(last.ret.markets) = Len(last.seen) - Cardinality(last.failed)
        /\ last.ret.count = Len(last.ret.markets)
        /\ last.ret.count < Len(last.seen)

\* two of the markets asked for fail, the others are returned
C27_Witness ==
    /\ IsList
    /\ ~last.hit
    /\ Cardinality(last.failed) = 2
    /\ Len(last.seen) >= 3
    /\ ~Failure(last.ret)
    /\ last.ret.count = Len(last.seen) - 2

(***************************************************************************)
(* Claims about the graph of a chat turn (checked under SpecTurn)          *)
(***************************************************************************)
\* the steps a turn may take: from extract to assistant, from assistant to the end
TurnStep ==
    \/ chat.phase = "extract" /\ chat'.phase = "assistant" /\ chat'.agentCalls = 0
    \/ chat.phase = "assistant" /\ chat'.phase = "end" /\ chat'.agentCalls = 1

Budget(how) ==
    CASE how = "once" -> 1
      [] how = "main" -> JL_MAX_ATTEMPTS
      [] OTHER -> JUSTLEND_MAX_RETRIES
ReadsOf(op) == IF op = "main.list_markets" THEN MainListReads ELSE OpsListReads
\* the place of the troubled function among the reads of a market, 0 if none
Troubled(reads) ==
    IF \E k \in 1 .. Len(reads) : reads[k][1] = last.plan.fn
    THEN CHOOSE k \in 1 .. Len(reads) : reads[k][1] = last.plan.fn
    ELSE 0
\* whether the troubled read of market a uses up its attempts
Exhausts(reads, a) ==
    /\ Troubled(reads) > 0
    /\ (a \in last.plan.bad \/ last.plan.pre >= Budget(reads[Troubled(reads)][2]))
\* the remote invocations and the retry sleeps market a takes when each of its
\* reads has its whole budget of attempts
CallsFor(reads, a) ==
    IF Troubled(reads) = 0 THEN Len(reads)
    ELSE IF Exhausts(reads, a)
    THEN (Troubled(reads) - 1) + Budget(reads[Troubled(reads)][2])
    ELSE Len(reads) + last.plan.pre
SleepsFor(reads, a) ==
    IF Troubled(reads) = 0 THEN 0
    ELSE IF Exhausts(reads, a) THEN Budget(reads[Troubled(reads)][2]) - 1
    ELSE last.plan.pre
Addrs(seq) == { seq[i] : i \in 1 .. Len(seq) }
RECURSIVE SumCalls(_, _, _)
SumCalls(reads, addrs, i) ==
    IF i > Len(addrs) THEN 0 ELSE CallsFor(reads, addrs[i]) + SumCalls(reads, addrs, i + 1)
RECURSIVE SumSleeps(_, _, _)
SumSleeps(reads, addrs, i) ==
    IF i > Len(addrs) THEN 0 ELSE SleepsFor(reads, addrs[i]) + SumSleeps(reads, addrs, i + 1)

\* C30: every remote read of a list_markets call has the whole budget of
\* attempts, however many earlier reads of the call failed or used up theirs:
\* the invocations and the retry sleeps of the call are the sums of what each
\* market takes on its own, and a market whose read fails for good is the only
\* one skipped.
C30_FullBudgetEveryRead ==
    (IsList /\ ~last.hit /\ last.plan.fn \in MarketFns) =>
        /\ ~last.raised
        /\ last.calls = 2 + SumCalls(ReadsOf(last.op), last.seen, 1)
        /\ last.sleeps = SumSleeps(ReadsOf(last.op), last.seen, 1)
        /\ last.failed = { a \in Addrs(last.seen) : Exhausts(ReadsOf(last.op), a) }

\* two markets use up their attempts in one call, the second after the first
C30_Witness ==
    /\ IsList
    /\ last.plan.fn = "symbol"
    /\ Cardinality(last.failed) = 2
    /\ last.failed \subseteq Addrs(last.seen)
    /\ last.sleeps = 2 * (Budget(ReadsOf(last.op)[2][2]) - 1)

(***************************************************************************)
(* Claims about the agent state of state_manager.py                        *)
(***************************************************************************)
StateStep(op) == chat.phase = "agent state" /\ chat.step.op = op

\* C31: every set_error adds exactly one to retry_count and leaves ui_state at
\* "error", so after max_retries set_error calls in a row (no clear_error or
\* reset_to_idle between them) needs_retry is false; clear_error leaves
\* retry_count at 0 and needs_retry false.
C31_RetryBudget ==
    /\ StateStep("set_error") =>
          /\ chat.state.retry_count = chat.step.before.retry_count + 1
          /\ chat.state.ui_state = "error"
          /\ IsInErrorState(chat.state)
    /\ chat.phase = "agent state" =>
          \A m \in 0 .. MAX_RETRIES_DEFAULT :
             /\ chat.streak >= m => ~NeedsRetry(chat.state, m)
             /\ (StateStep("set_error") /\ chat.state.retry_count < m)
                   => NeedsRetry(chat.state, m)
    /\ StateStep("clear_error") =>
          /\ chat.state.retry_count = 0
          /\ \A m \in 0 .. MAX_RETRIES_DEFAULT : ~NeedsRetry(chat.state, m)

\* the set_error that uses up the default budget of three
C31_Witness ==
    /\ StateStep("set_error")
    /\ chat.streak = MAX_RETRIES_DEFAULT
    /\ NeedsRetry(chat.step.before, MAX_RETRIES_DEFAULT)
    /\ ~NeedsRetry(chat.state, MAX_RETRIES_DEFAULT)

\* C32: reset_to_idle leaves current_step and ui_state at idle, needs_user_input
\* false, no error and retry_count 0, tools_used and function_calls empty and
\* exactly one queued update, the new idle one; messages, session_id and the
\* wallet fields are as before.
C32_ResetToIdle ==
    StateStep("reset_to_idle") =>
       /\ chat.state.current_step = "idle"
       /\ chat.state.ui_state = "idle"
       /\ chat.state.needs_user_input = FALSE
       /\ IsNone(chat.state.error_message)
       /\ chat.state.retry_count = 0
       /\ chat.state.tools_used = <<>>
       /\ chat.state.function_calls = <<>>
       /\ Len(chat.state.ui_updates) = 1
       /\ chat.state.ui_updates[1].state = "idle"
       /\ chat.state.ui_updates[1].message = "Ready for your next request"
       /\ chat.state.messages = chat.step.before.messages
       /\ chat.state.session_id = chat.step.before.session_id
       /\ chat.state.wallet_address = chat.step.before.wallet_address
       /\ chat.state.wallet_validated = chat.step.before.wallet_validated
       /\ chat.state.wallet_info = chat.step.before.wallet_info

\* a reset out of an error state with a message, a call and updates on record
C32_Witness ==
    /\ StateStep("reset_to_idle")
    /\ IsInErrorState(chat.step.before)
    /\ chat.step.before.retry_count > 0
    /\ Len(chat.step.before.ui_updates) > 1
    /\ chat.step.before.messages # <<>>
    /\ chat.step.before.function_calls # <<>>

(***************************************************************************)
(* Claims about what /api/chat hands to the agent and answers               *)
(***************************************************************************)
Answered == chat.phase = "replying" /\ chat.step.op = "chat"

\* where the latest user message stands in the state node_assistant sees
LatestHumanAt(messages) ==
    CHOOSE i \in 1 .. Len(messages) :
       /\ messages[i].role = "human"
       /\ \A j \in i + 1 .. Len(messages) : messages[j].role # "human"

\* the messages but the one at position i
AllBut(messages, i) ==
    [j \in 1 .. Len(messages) - 1 |-> IF j < i THEN messages[j] ELSE messages[j + 1]]

\* C33: the agent gets the latest user message once, as `input`; the
\* chat_history it gets with it is every other message of the turn's state, a
\* "Noted for later" message of the extract step included, and not the latest
\* user message.
C33_Original ==
    Answered =>
       /\ chat.step.input = "call me a"
       /\ chat.step.chat_history =
             AllBut(chat.step.messages, LatestHumanAt(chat.step.messages))

\* C34: the reply is the agent's output of the turn, or "Okay." when that
\* output is empty; it is never the text of another message.
C34_Original ==
    Answered =>
       /\ chat.step.response.reply.kind = "text"
       /\ chat.step.response.reply.val =
             IF chat.step.agent.output = "" THEN "Okay." ELSE chat.step.agent.output

\* C35: the function_calls of the response are the list node_assistant built
\* from the tool steps of the turn, in their order, and the empty list when no
\* tool ran.
C35_Original ==
    Answered =>
       chat.step.response.function_calls = FunctionCalls(chat.step.agent.steps, 1, <<>>)

(***************************************************************************)
(* Claims about the cache slot over the calls of a running process         *)
(***************************************************************************)
\* C36: the cache slot is written only by a trustlender_list_markets call that
\* completes a fresh fetch without a top-level error; a call served from the
\* cache leaves payload and timestamp as they were, a call that ends in the
\* error branch leaves the slot as it was, and a stored payload always has
\* count = len(markets).
C36_CacheWrites ==
    /\ CallDone =>
          \/ cache = last.pre
          \/ /\ IsMainList
             /\ ~last.hit
             /\ ~last.raised
             /\ ~Failure(last.ret)
             /\ cache = <<last.at, last.ret>>
    /\ (IsMainList /\ last.hit) => cache = last.pre
    /\ (IsMainList /\ (last.raised \/ Failure(last.ret))) => cache = last.pre
    /\ cache # <<>> => cache[2].count = Len(cache[2].markets)

\* a hit on an entry written a TTL ago, and the slot still carries that time
C36_Witness ==
    /\ IsMainList
    /\ last.hit
    /\ cache # <<>>
    /\ last.at > cache[1]
    /\ cache = last.pre

\* C40: a trustlender_list_markets(L) response served from the cache equals
\* the response of a fresh fetch with the same L against the upstream state
\* and per-market failure pattern under which the cache was filled, also when
\* that fetch skipped a market.
C40_Original ==
    (IsMainList /\ last.hit) =>
       \A plan \in ListPlans, fill \in LimitArgs :
          LET filled == TrustlenderListMarkets(fill, plan, <<>>, last.pre[1]) IN
          (~Failure(filled.ret) /\ filled.cache = last.pre) =>
             last.ret = TrustlenderListMarkets(last.arg, plan, <<>>, last.at).ret

(***************************************************************************)
(* Claims about justlend_ops.market_detail and list_markets (SpecTools)    *)
(***************************************************************************)
IsOpsDetail == CallDone /\ last.op = "ops.market_detail"
\* the market whose symbol equals the requested one, case-insensitively
Matches(a, symbol) == Lower(Symbol(a)) = Lower(symbol)
\* the symbol read of market a uses up its retries
SymbolDown(a) == ReadFails("symbol", a, JUSTLEND_MAX_RETRIES)
\* the scan gets to the i-th market: the top-level reads answer and no earlier
\* market matches or fails to open
Inspected(i) ==
    /\ ~ReadFails("comptroller", 0, 1)
    /\ ~ReadFails("getAllMarkets", 0, JUSTLEND_MAX_RETRIES)
    /\ \A j \in 1 .. i - 1 :
          /\ ~Matches(AllMarkets[j], last.arg)
          /\ ~ReadFails("get_contract", AllMarkets[j], 1)
          /\ ~SymbolDown(AllMarkets[j])
    /\ ~ReadFails("get_contract", AllMarkets[i], 1)

\* C38: market_detail answers "MarketNotFound" only when the symbol of every
\* market of the list was read and none matched; a symbol read that uses up
\* its retries on a market inspected before a match ends the call with a
\* success = false payload carrying the exception's type name; on a match the
\* first matching market in list order is returned and no later market is
\* inspected.
C38_MarketDetail ==
    IsOpsDetail =>
       /\ ~last.raised
       /\ (last.ret.success = FALSE /\ last.ret.error_type = "MarketNotFound") =>
             /\ last.seen = AllMarkets
             /\ last.failed = {}
             /\ NoMatch(last.arg)
             /\ \A i \in 1 .. Len(AllMarkets) : ~SymbolDown(AllMarkets[i])
       /\ \A i \in 1 .. Len(AllMarkets) :
             (Inspected(i) /\ SymbolDown(AllMarkets[i])) =>
                /\ last.ret.success = FALSE
                /\ last.ret.error_type = Exc("symbol").type
                /\ last.seen = SubSeq(AllMarkets, 1, i)
       /\ last.ret.success = TRUE =>
             /\ Matches(last.ret.market.address, last.arg)
             /\ \A j \in 1 .. Len(last.seen) - 1 : ~Matches(last.seen[j], last.arg)
             /\ last.seen[Len(last.seen)] = last.ret.market.address
             /\ \E n \in 1 .. Len(AllMarkets) : last.seen = SubSeq(AllMarkets, 1, n)

\* jtrx is asked for and the symbol of the first market cannot be read
C38_Witness ==
    /\ IsOpsDetail
    /\ last.arg = "jtrx"
    /\ SymbolDown(AllMarkets[1])
    /\ last.ret.success = FALSE
    /\ last.ret.error_type = "HTTPError"
    /\ last.seen = <<AllMarkets[1]>>

\* the reads list_markets makes through _with_retries for one market
RetriedFns == { OpsListReads[k][1] : k \in 2 .. Len(OpsListReads) }
\* the attempts made through _with_retries: the Comptroller set-up and the one
\* contract lookup per market visited are made outside it
RetriedAttempts == last.calls - 1 - Len(last.seen)
\* the attempts getAllMarkets takes
ListAttempts ==
    IF ReadFails("comptroller", 0, 1) THEN 0
    ELSE IF last.plan.fn # "getAllMarkets" THEN 1
    ELSE IF ReadFails("getAllMarkets", 0, JUSTLEND_MAX_RETRIES) THEN JUSTLEND_MAX_RETRIES
    ELSE last.plan.pre + 1
\* the attempts market a takes: the reads before the one that uses up its
\* retries, that read's attempts, and none after it
MarketAttempts(a) ==
    IF ReadFails("get_contract", a, 1) THEN 0
    ELSE IF last.plan.fn \notin RetriedFns THEN Cardinality(RetriedFns)
    ELSE IF ReadFails(last.plan.fn, a, JUSTLEND_MAX_RETRIES)
    THEN (Troubled(OpsListReads) - 2) + JUSTLEND_MAX_RETRIES
    ELSE Cardinality(RetriedFns) + last.plan.pre
RECURSIVE SumAttempts(_, _)
SumAttempts(addrs, i) ==
    IF i > Len(addrs) THEN 0 ELSE MarketAttempts(addrs[i]) + SumAttempts(addrs, i + 1)

\* C39: list_markets(limit) with limit >= 1 ends with a payload after at most
\* max_attempts attempts per remote read, at most
\* max_attempts * (1 + 6 * min(limit, N)) attempts in all, and once a read of a
\* market has used up its retries no further read of that market is attempted.
C39_ListTerminates ==
    (IsOpsList /\ LimitOf >= 1) =>
       /\ ~last.raised
       /\ "success" \in DOMAIN last.ret
       /\ Len(last.seen) <= Min(LimitOf, Len(AllMarkets))
       /\ RetriedAttempts <=
             JUSTLEND_MAX_RETRIES * (1 + 6 * Min(LimitOf, Len(AllMarkets)))
       /\ RetriedAttempts = ListAttempts + SumAttempts(last.seen, 1)

\* the last read of two markets uses up its retries, limit above N
C39_Witness ==
    /\ IsOpsList
    /\ LimitOf > Len(AllMarkets)
    /\ last.plan.fn = "markets"
    /\ Cardinality(last.failed) = 2
    /\ Len(last.seen) = Len(AllMarkets)
    /\ RetriedAttempts = 1 + 6 * (Len(AllMarkets) - 2) + 2 * (5 + JUSTLEND_MAX_RETRIES)

(***************************************************************************)
(* Claims about the isolation of sessions (checked under SpecServer)       *)
(***************************************************************************)
\* what a store holds of a session, None when there is none
SessionIn(store, sid) == IF sid \in DOMAIN store THEN Some(store[sid]) ELSE None
\* the store with the sessions of `sids` only
Only(store, sids) == [sid \in DOMAIN store \cap sids |-> store[sid]]
\* the last handler run again on a store that holds its own session only
Alone ==
    LET alone == Only(chat.step.before, {Sid})
        evt == CHOOSE e \in WalletEvents : e.session_id = Sid
    IN CASE chat.step.op = "wallet_connected" -> WalletConnected(alone, evt)
         [] chat.step.op = "wallet_details" -> WalletDetails(alone, evt)
         [] chat.step.op = "wallet_error" -> WalletError(alone, evt)
         [] chat.step.op = "chat" ->
               ChatEndpoint(alone, [session_id |-> Sid, message |-> "call me a"],
                            ExtractFacts([kind |-> "facts", pf |-> chat.step.out.pf],
                                         [kind |-> "error"]),
                            CHOOSE agent \in SessionAgents :
                               (agent.kind = "error") = chat.step.out.raised).store
         [] OTHER -> alone

\* C37: a chat turn or a wallet callback of one session leaves the stored
\* profile, chat history and wallet fields of every other session as they
\* were, and what it computes and stores for its own session is what it
\* computes when the store holds no other session.
C37_SessionIsolation ==
    Handled =>
       /\ \A other \in SessionIds \ {Sid} :
             SessionIn(chat.sessions, other) = SessionIn(chat.step.before, other)
       /\ SessionIn(chat.sessions, Sid) = SessionIn(Alone, Sid)
       /\ chat.step.op = "chat" =>
             /\ chat.step.out.read = ProfileIn(Only(chat.step.before, {Sid}), Sid)
             /\ chat.step.out.history =
                   AgentHistory(NodeExtractResult(
                       [messages |-> Append(IF Existed
                                            THEN chat.step.before[Sid].chat_history
                                            ELSE <<>>,
                                            Msg("human", "text", "call me a")),
                        profile |-> chat.step.out.read],
                       ExtractFacts([kind |-> "facts", pf |-> chat.step.out.pf],
                                    [kind |-> "error"])).messages)

\* a chat turn of s1 while s2 holds a wallet, a profile and a history
C37_Witness ==
    /\ Handled
    /\ chat.step.op = "chat"
    /\ Sid = "s1"
    /\ ~chat.step.out.raised
    /\ "s2" \in DOMAIN chat.step.before
    /\ ~IsNone(chat.step.before["s2"].wallet)
    /\ chat.step.before["s2"].chat_history # <<>>
    /\ chat.sessions["s2"] = chat.step.before["s2"]
    /\ chat.sessions["s1"].chat_history # chat.sessions["s2"].chat_history

====
